---------------------------- MODULE Spec2Model ----------------------------
(***************************************************************************)
(* A model of the DCM reverse-engineering tools of DCM_to_STL_autoconverter *)
(* (src/tools): the known-plaintext attack, the key-based decoder, the      *)
(* facet segmentation, the STL canonicaliser, the container parser and the  *)
(* batch pair analyser.  Every tool is a small state machine over the       *)
(* shared variables below; a specification per tool fixes the inputs the    *)
(* tool is run on (Init) and the steps it takes (Next).                     *)
(*                                                                         *)
(* Bytes are integers 0..255, byte strings are sequences (1-based here,     *)
(* 0-based in the source).  A dict key that is not set reads FALSE (a flag), *)
(* 0 (a length) or <<>> (a byte string).                                    *)
(***************************************************************************)
EXTENDS Integers, Sequences, FiniteSets, TLC

VARIABLES
    pc,            \* position of the running tool
    dcm_data,      \* container vertex payload P (known_plaintext_attack, dcm_decoder)
    stl_data,      \* reference vertex payload R
    xor_key,       \* the derived key X = P XOR R
    key_analysis,  \* analyze_xor_key's result dict
    results,       \* perform_known_plaintext_attack's result dict
    args,          \* the running tool's parsed command line
    facet_data,    \* the container's facet payload
    facet_count,   \* the container's declared facet_count
    vertices,      \* the decrypted vertices; a face loader's vertex list
    faces,         \* the decoded faces; a face loader's face list
    written,       \* the files written, as <<kind, content>>
    sub_analysis,  \* known-plaintext attack: what try_byte_substitution returned
    block_analysis, \* what try_block_cipher_detection returned
    segments,      \* the facet payload's segments between delimiters
    pairs,         \* batch_pair_analyzer: the work list of (dcm, stl) pairs
    idx,           \* the loop index of process_pairs and of the face loaders
    records,       \* process_pairs: the results list
    db,            \* the persisted JSON database
    key_files,     \* the key sidecar files, as <<file name, content>>
    report,        \* what analyze_database prints
    triangles,     \* facet_decoder: the triangle stream of the reference
    vertex_map,    \* load_stl_faces_*: rounded key -> index, as entries
    container,     \* the container file handed to a parser
    parsed,        \* what the parser returned
    stl_file,      \* the reference file handed to an STL loader
    loaded,        \* what the STL loader returned
    sdx_obj,       \* SDXInterface._sdx: "None" or "Dispatch"
    service,       \* the SDX service: is the client attached, is it finished
    conv,          \* the convert_file call in progress or last returned
    conversion_list, \* the files discover_files returned
    cd,            \* the convert_directory call: its locals and its outcome
    temp_obj,      \* _sdx of the temporary SDXInterface of convert_directory
    current_color, \* gui: sdx_status._current_color
    after_queue,   \* gui: the colour updates posted with after(0), oldest first
    scheduled,     \* gui: is after(100, _attach_sdx_background) still pending
    threads,       \* gui: the position of every _attach_sdx thread started
    clicks         \* gui: the clicks on the status indicator so far

kpaVars == <<key_analysis, results, sub_analysis, block_analysis>>
decVars == <<args, facet_data, facet_count, vertices, faces, written>>
batchVars == <<pairs, idx, records, db, key_files, report>>
canonVars == <<triangles, vertex_map>>
parseVars == <<container, parsed>>
stlVars == <<stl_file, loaded>>
sdxVars == <<sdx_obj, service, conv>>
convVars == <<conversion_list, cd, temp_obj>>
guiVars == <<current_color, after_queue, scheduled, threads, clicks>>
moreVars == <<convVars, guiVars>>
extVars == <<stlVars, sdxVars, moreVars>>
restVars == <<batchVars, canonVars, parseVars, extVars>>
coreVars == <<dcm_data, stl_data, xor_key, kpaVars, decVars, segments,
              batchVars, canonVars, parseVars>>
vars == <<pc, dcm_data, stl_data, xor_key, kpaVars, decVars, segments, restVars>>

(***************************************************************************)
(* Bounds of the model.                                                     *)
(***************************************************************************)
MaxLen == 3          \* longest exhaustively enumerated payload
LongLen == 1040      \* length of the long structured payloads
MaxVerts == 3        \* most vertices of a decoder payload
MaxFacetLen == 4     \* longest facet payload
MaxPairs == 2        \* longest batch work list
MaxTriangles == 3    \* longest triangle stream
MaxPayload == 2      \* longest payload of a parsed container
MaxStlTris == 2      \* most triangles of a reference file
MaxPolls == 3        \* most readings of Finished by one convert_file
MaxFiles == 3        \* most files discover_files returns
MaxClicks == 3       \* most clicks on the status indicator

SmallBytes == {0, 1, 255}

(***************************************************************************)
(* Program constants.                                                       *)
(***************************************************************************)
MaxPeriod == 256     \* find_repeating_pattern's max_len default
PatternKeep == 64    \* analyze_xor_key keeps repeating[shortest][:64]
Delimiter == 9       \* the facet payload's segment delimiter

(***************************************************************************)
(* Byte-string helpers.                                                     *)
(***************************************************************************)
Min(a, b) == IF a <= b THEN a ELSE b

\* Python's a ^ b on two bytes, bit by bit.
RECURSIVE BitXor(_, _)
BitXor(a, b) ==
    IF a = 0 THEN b
    ELSE IF b = 0 THEN a
    ELSE 2 * BitXor(a \div 2, b \div 2) + ((a + b) % 2)

\* bytes(a ^ b for a, b in zip(p, r)): zip stops at the shorter operand.
XorBytes(p, r) == [i \in 1..Min(Len(p), Len(r)) |-> BitXor(p[i], r[i])]

\* data[:n]
Prefix(data, n) == SubSeq(data, 1, Min(n, Len(data)))

\* bytes.hex(): two hexadecimal digits (0..15) per byte, high digit first.
Hex(data) ==
    [i \in 1..(2 * Len(data)) |->
        IF i % 2 = 1 THEN data[(i + 1) \div 2] \div 16 ELSE data[i \div 2] % 16]

\* bytes.fromhex()
FromHex(h) == [i \in 1..(Len(h) \div 2) |-> 16 * h[2 * i - 1] + h[2 * i]]

\* The byte string of length n that repeats pat.
Rep(pat, n) == [i \in 1..n |-> pat[((i - 1) % Len(pat)) + 1]]

\* k-1 zero bytes followed by a one: a pattern whose shortest period is k.
UnitPat(k) == [i \in 1..k |-> IF i = k THEN 1 ELSE 0]

(***************************************************************************)
(* known_plaintext_attack.py                                                *)
(***************************************************************************)

\* A find_repeating_pattern that compares only the first two repetitions.
PatternMatchesPrefix(data, pattern_len) ==
    \A i \in pattern_len..(Min(2 * pattern_len, Len(data)) - 1) :
        data[i + 1] = data[(i % pattern_len) + 1]

\* The inner loop of find_repeating_pattern: data[i] == pattern[i % pattern_len]
\* for every i in range(pattern_len, len(data)), pattern = data[:pattern_len].
PatternMatches(data, pattern_len) ==
    \A i \in pattern_len..(Len(data) - 1) :
        data[i + 1] = data[(i % pattern_len) + 1]

\* The outer loop over pattern_len in lo..hi, in ascending order: the first
\* match is stored and the loop breaks.  The range is scanned in halves (the
\* lower half first, the upper half only when the lower one broke nowhere);
\* the value is the pattern_len of the break, 0 when the loop ran out.
RECURSIVE FirstMatch(_, _, _)
FirstMatch(data, lo, hi) ==
    IF lo > hi THEN 0
    ELSE IF lo = hi THEN (IF PatternMatches(data, lo) THEN lo ELSE 0)
    ELSE LET mid == (lo + hi) \div 2
             low == FirstMatch(data, lo, mid)
         IN  IF low # 0 THEN low ELSE FirstMatch(data, mid + 1, hi)

\* The result dict as a set of <<pattern_len, pattern>> items.
find_repeating_pattern(data) ==
    LET k == FirstMatch(data, 1, Min(MaxPeriod, Len(data) \div 2))
    IN  IF k = 0 THEN {} ELSE {<<k, SubSeq(data, 1, k)>>}

\* analyze_xor_key, the part the attack reads: the repeating pattern entries
\* ('repeating_pattern_length' in key_analysis is has_pattern).
analyze_xor_key(key) ==
    LET repeating == find_repeating_pattern(key)
        lens == {e[1] : e \in repeating}
        shortest == CHOOSE k \in lens : \A j \in lens : k <= j
        pat == (CHOOSE e \in repeating : e[1] = shortest)[2]
    IN  [repeating |-> repeating,
         has_pattern |-> repeating # {},
         repeating_pattern_length |-> IF repeating = {} THEN 0 ELSE shortest,
         repeating_pattern |-> IF repeating = {} THEN <<>>
                               ELSE Prefix(pat, PatternKeep)]

NoAnalysis ==
    [repeating |-> {}, has_pattern |-> FALSE, repeating_pattern_length |-> 0,
     repeating_pattern |-> <<>>]

\* bytes(dcm_data[i] ^ pattern[i % pattern_len] for i in range(len(dcm_data)))
DecryptRepeating(data, pattern) ==
    [i \in 1..Len(data) |-> BitXor(data[i], pattern[((i - 1) % Len(pattern)) + 1])]

\* sum(1 for a, b in zip(decrypted, stl_data) if a == b)
MatchCount(decrypted, reference) ==
    Cardinality({i \in 1..Min(Len(decrypted), Len(reference)) :
                    decrypted[i] = reference[i]})

\* A validation gate of "match_pct > 99".
MatchOver99(match_count, total) == match_count * 100 > 99 * total

\* match_count / len(stl_data) * 100 > 99.9
MatchOver999(match_count, total) == match_count * 1000 > 999 * total

\* match_count / len(stl_data) * 100 == 100
MatchIs100(match_count, total) == match_count = total

\* The payload pairs the attack is run on: every pair of short payloads, and
\* long payloads whose key has one exact period around the program's limits.
ShortPayloads == UNION {[1..n -> SmallBytes] : n \in 0..MaxLen}

LongPeriods == {8, PatternKeep, PatternKeep + 1, MaxPeriod, MaxPeriod + 1}

LongPairs ==
    {<<XorBytes(Rep(UnitPat(k), n), Rep(<<7, 200>>, n)), Rep(<<7, 200>>, n)>> :
        k \in LongPeriods, n \in {24, 2 * MaxPeriod + 1, LongLen}}

\* A substitution test that also wants the mapping to be invertible.
try_byte_substitution_invertible(dcm, stl) ==
    LET n == Min(Len(dcm), Len(stl))
        table == {<<dcm[i], stl[i]>> : i \in 1..n}
        ok == \A a, b \in table : (a[1] = b[1]) <=> (a[2] = b[2])
    IN  [is_substitution |-> ok,
         table_size |-> Cardinality({a[1] : a \in table}),
         conflicts |-> {},
         has_table |-> ok,
         substitution_table |-> IF ok THEN table ELSE {}]

\* try_byte_substitution: sub_table maps a container byte to the reference
\* byte of its first position; a later position with another reference
\* byte is a conflict.  substitution_table is the table as a set of pairs,
\* and {} with has_table FALSE where the code returns None.
try_byte_substitution(dcm, stl) ==
    LET n == Min(Len(dcm), Len(stl))
        first(d) == CHOOSE i \in 1..n :
                        dcm[i] = d /\ \A j \in 1..(i - 1) : dcm[j] # d
        sub_table == {<<dcm[i], stl[first(dcm[i])]>> : i \in 1..n}
        conflicts == {i \in 1..n : stl[first(dcm[i])] # stl[i]}
    IN  [is_substitution |-> conflicts = {},
         table_size |-> Cardinality(sub_table),
         conflicts |-> conflicts,
         has_table |-> conflicts = {},
         substitution_table |-> IF conflicts = {} THEN sub_table ELSE {}]

BlockSizes == {8, 16, 32, 64}

\* data[start:end] of block i (from 0)
Block(data, i, block_size) ==
    SubSeq(data, i * block_size + 1, (i + 1) * block_size)

\* try_block_cipher_detection: for a size that divides the payload, the
\* dict dcm_blocks keeps the reference block of the first position of each
\* container block; the loop breaks at the first position whose container
\* block was seen with another reference block.
try_block_cipher_detection(dcm, stl) ==
    [block_size \in {b \in BlockSizes : Len(dcm) % b = 0} |->
        LET num_blocks == Len(dcm) \div block_size
            first(i) == CHOOSE j \in 0..i :
                           /\ Block(dcm, j, block_size) = Block(dcm, i, block_size)
                           /\ \A k \in 0..(j - 1) :
                                 Block(dcm, k, block_size)
                                    # Block(dcm, i, block_size)
            clash == {i \in 0..(num_blocks - 1) :
                         Block(stl, first(i), block_size)
                            # Block(stl, i, block_size)}
            stop == IF clash = {} THEN num_blocks
                    ELSE CHOOSE i \in clash : \A j \in clash : i <= j
        IN  [consistent |-> clash = {},
             unique_blocks |->
                 Cardinality({Block(dcm, i, block_size) :
                                 i \in 0..(stop - 1)})]]

\* Payloads of two and three 8-byte blocks, each block one of two.
BlockStreams ==
    {[i \in 1..(8 * Len(pick)) |-> pick[((i - 1) \div 8) + 1]] :
        pick \in UNION {[1..n -> {1, 2}] : n \in 2..3}}

BlockPairs ==
    {pr \in BlockStreams \X BlockStreams : Len(pr[1]) = Len(pr[2])}

VertexLen == 12      \* bytes of a vertex
SampleLimit == 100   \* analyze_vertex_by_vertex looks at min(100, n) vertices

\* data[offset:offset+12] of vertex i (from 0)
VertexBlock(data, i) ==
    SubSeq(data, VertexLen * i + 1, Min(VertexLen * (i + 1), Len(data)))

\* analyze_vertex_by_vertex: the XOR key of each sampled vertex.
analyze_vertex_by_vertex(dcm, stl) ==
    LET num_vertices == Len(dcm) \div VertexLen
        unique_keys ==
            {XorBytes(VertexBlock(dcm, i), VertexBlock(stl, i)) :
                i \in 0..(Min(SampleLimit, num_vertices) - 1)}
    IN  [unique_vertex_keys |-> Cardinality(unique_keys),
         same_key_per_vertex |-> Cardinality(unique_keys) = 1,
         vertex_key |-> IF Cardinality(unique_keys) = 1
                        THEN CHOOSE k \in unique_keys : TRUE ELSE <<>>]

\* Key streams for the vertex analysis: one 12-byte key over two and over
\* SampleLimit + 1 whole vertices, the same with a second or a last vertex
\* of another key, and one and two vertices followed by a stray byte.
VertexKeyStreams ==
    LET same(n) == Rep(UnitPat(VertexLen), n)
        beyond == VertexLen * (SampleLimit + 1)
    IN  { same(2 * VertexLen),
          [same(2 * VertexLen) EXCEPT ![VertexLen + 1] = 1],
          same(VertexLen + 1),
          same(2 * VertexLen + 1),
          same(beyond),
          [same(beyond) EXCEPT ![beyond - VertexLen + 1] = 1] }

VertexPairs ==
    {<<XorBytes(key, Rep(<<7, 200>>, Len(key))), Rep(<<7, 200>>, Len(key))>> :
        key \in VertexKeyStreams}

NoResults ==
    [dcm_size |-> 0, stl_size |-> 0, has_repeating_pattern |-> FALSE,
     is_substitution_cipher |-> FALSE,
     vertex_analysis |-> [unique_vertex_keys |-> 0,
                          same_key_per_vertex |-> FALSE, vertex_key |-> <<>>],
     pattern_length |-> 0, pattern_hex |-> <<>>, match_count |-> 0,
     success |-> FALSE, key |-> <<>>, full_key_works |-> FALSE]

\* The variables of the tools that are not running.
NoSubstitution ==
    [is_substitution |-> FALSE, table_size |-> 0, conflicts |-> {},
     has_table |-> FALSE, substitution_table |-> {}]

NoBlocks == [size \in {} |-> [consistent |-> TRUE, unique_blocks |-> 0]]

IdleKPA ==
    /\ key_analysis = NoAnalysis
    /\ results = NoResults
    /\ sub_analysis = NoSubstitution
    /\ block_analysis = NoBlocks

IdleDec ==
    /\ args = [mode |-> "none", output |-> FALSE, ascii |-> FALSE,
               save_key |-> FALSE]
    /\ facet_data = <<>>
    /\ facet_count = 0
    /\ vertices = <<>>
    /\ faces = <<>>
    /\ written = {}

IdleSeg == segments = <<>>

NoReport ==
    [total |-> 0, successful |-> 0, errors |-> 0, analysed |-> FALSE,
     unique_keys |-> 0, flagged |-> {}, same_sig_different_key |-> 0,
     conclusion |-> FALSE]

IdleBatch ==
    /\ pairs = <<>>
    /\ idx = 0
    /\ records = <<>>
    /\ db = <<>>
    /\ key_files = {}
    /\ report = NoReport

IdleCanon == triangles = <<>> /\ vertex_map = <<>>

NoParse == [tool |-> "none", raised |-> FALSE]

IdleParse == container = <<>> /\ parsed = NoParse

NoLoad == [loader |-> "none", raised |-> FALSE]

IdleStl == stl_file = <<>> /\ loaded = NoLoad

NoCall ==
    [op |-> "none", outcome |-> "running", was_attached |-> FALSE,
     calls |-> <<>>, state |-> 0, polls |-> 0, last_read |-> FALSE,
     error |-> "none", code |-> 0, known |-> FALSE, input_file |-> "",
     progress |-> <<>>]

IdleSdx ==
    /\ sdx_obj = "None"
    /\ service = [attached |-> FALSE, finished |-> FALSE, input_file |-> ""]
    /\ conv = NoCall

NoRun ==
    [outcome |-> "running", result |-> 0, error |-> "none", path |-> "none",
     converted_count |-> 0, i |-> 0, attempts |-> <<>>, progress |-> <<>>]

IdleConv == conversion_list = <<>> /\ cd = NoRun /\ temp_obj = "None"

IdleGui ==
    /\ current_color = "red"
    /\ after_queue = <<>>
    /\ scheduled = FALSE
    /\ threads = <<>>
    /\ clicks = 0

IdleMore == IdleConv /\ IdleGui

IdleExt == IdleStl /\ IdleSdx /\ IdleMore

IdleRest == IdleBatch /\ IdleCanon /\ IdleParse /\ IdleExt

InitKPA ==
    /\ pc = "kpa_loaded"
    /\ IdleDec
    /\ IdleSeg
    /\ IdleRest
    /\ \E pr \in (ShortPayloads \X ShortPayloads) \cup LongPairs
                    \cup VertexPairs \cup BlockPairs :
          /\ dcm_data = pr[1]
          /\ stl_data = pr[2]
    /\ xor_key = <<>>
    /\ key_analysis = NoAnalysis
    /\ results = NoResults
    /\ sub_analysis = NoSubstitution
    /\ block_analysis = NoBlocks

\* Lines 298-303: a size mismatch is printed and both payloads are cut.
KpaTruncate ==
    /\ pc = "kpa_loaded"
    /\ LET min_len == Min(Len(dcm_data), Len(stl_data))
       IN  /\ dcm_data' = Prefix(dcm_data, min_len)
           /\ stl_data' = Prefix(stl_data, min_len)
    /\ pc' = "kpa_truncated"
    /\ UNCHANGED <<xor_key, kpaVars, decVars, segments, restVars>>

\* Lines 309-310: the key and its analysis; key[0] raises IndexError on an
\* empty key.
KpaAnalyze ==
    /\ pc = "kpa_truncated"
    /\ xor_key' = XorBytes(dcm_data, stl_data)
    /\ IF Len(xor_key') = 0
       THEN /\ pc' = "kpa_raised"
            /\ key_analysis' = NoAnalysis
       ELSE /\ pc' = "kpa_analyzed"
            /\ key_analysis' = analyze_xor_key(xor_key')
    /\ UNCHANGED <<dcm_data, stl_data, results, sub_analysis, block_analysis,
                   decVars, segments, restVars>>

\* Lines 326-412: the substitution and vertex analyses, the result dict and
\* the decryption validation.
KpaValidate ==
    /\ pc = "kpa_analyzed"
    /\ LET has == key_analysis.has_pattern
           pattern == key_analysis.repeating_pattern
           decrypted == IF has THEN DecryptRepeating(dcm_data, pattern)
                        ELSE XorBytes(dcm_data, xor_key)
           match_count == MatchCount(decrypted, stl_data)
           ok == has /\ MatchOver999(match_count, Len(stl_data))
       IN  /\ sub_analysis' = try_byte_substitution(dcm_data, stl_data)
           /\ block_analysis' = try_block_cipher_detection(dcm_data, stl_data)
           /\ results' =
             [dcm_size |-> Len(dcm_data),
              stl_size |-> Len(stl_data),
              has_repeating_pattern |-> has,
              is_substitution_cipher |-> sub_analysis'.is_substitution,
              vertex_analysis |->
                  analyze_vertex_by_vertex(dcm_data, stl_data),
              pattern_length |-> key_analysis.repeating_pattern_length,
              pattern_hex |-> Hex(pattern),
              match_count |-> match_count,
              success |-> ok,
              key |-> IF ok THEN Hex(pattern) ELSE <<>>,
              full_key_works |->
                  ~has /\ MatchIs100(match_count, Len(stl_data))]
    /\ pc' = "kpa_done"
    /\ UNCHANGED <<dcm_data, stl_data, xor_key, key_analysis, decVars, segments, restVars>>

NextKPA == KpaTruncate \/ KpaAnalyze \/ KpaValidate

SpecKPA == InitKPA /\ [][NextKPA]_vars

(***************************************************************************)
(* dcm_decoder.py                                                           *)
(***************************************************************************)

\* A key derivation that adds the payloads byte by byte instead of XOR-ing.
derive_xor_key_add(dcm_vertex_data, stl_vertex_data) ==
    [i \in 1..Min(Len(dcm_vertex_data), Len(stl_vertex_data)) |->
        (dcm_vertex_data[i] + stl_vertex_data[i]) % 256]

\* derive_xor_key past its size check (the check is DecGetKey's).
derive_xor_key(dcm_vertex_data, stl_vertex_data) ==
    XorBytes(dcm_vertex_data, stl_vertex_data)

\* decrypt_vertices past its length check: the decrypted bytes, and one
\* vertex per whole 12-byte block.  A Vertex is kept as its 12 bytes, the
\* three little-endian float32 values struct.unpack('<fff') reads.
DecryptBytes(dcm_vertex_data, key) ==
    [i \in 1..Len(dcm_vertex_data) |-> BitXor(dcm_vertex_data[i], key[i])]

decrypt_vertices(dcm_vertex_data, key) ==
    LET decrypted == DecryptBytes(dcm_vertex_data, key)
    IN  [i \in 1..(Len(decrypted) \div 12) |->
            SubSeq(decrypted, 12 * (i - 1) + 1, 12 * i)]

\* A placeholder that returns the "simple triangulation" its docstring
\* announces: one face per three consecutive vertices.
decode_facets_triangulation(data, count, vertex_count) ==
    [i \in 1..(vertex_count \div 3) |-> <<3 * i - 3, 3 * i - 2, 3 * i - 1>>]

\* decode_facets_placeholder: prints a warning and returns [].
decode_facets_placeholder(data, count, vertex_count) == <<>>

\* struct.pack('<fff', v.x, v.y, v.z) for v in vertices, concatenated.
RECURSIVE PackVertices(_)
PackVertices(vs) ==
    IF vs = <<>> THEN <<>> ELSE Head(vs) \o PackVertices(Tail(vs))

\* The payloads the decoder is run on: byte strings seed + step * i of a few
\* whole and broken vertex counts.
Gen(seed, step, n) == [i \in 1..n |-> (seed + step * i) % 256]

DecLens == {12 * v + r : v \in 0..MaxVerts, r \in {0, 5}}

DecPayloads ==
    {Gen(g[1], g[2], n) : g \in {<<0, 0>>, <<255, 85>>, <<37, 1>>}, n \in DecLens}

\* The command lines: --info, neither --key nor --stl, --key, --stl, with
\* -o, --ascii and --save-key.
DecArgs ==
    {a \in [mode : {"info", "none", "key", "stl"}, output : BOOLEAN,
            ascii : BOOLEAN, save_key : BOOLEAN] :
        /\ (a.mode \in {"info", "none"}) => (~a.output /\ ~a.save_key)
        /\ a.save_key => (a.mode = "stl")
        /\ a.ascii => a.output}

\* main up to line 277: the metadata and the payloads are loaded.  stl_data
\* is the reference payload of --stl, xor_key the key file of --key.
InitDec ==
    /\ pc = "dec_loaded"
    /\ IdleKPA
    /\ args \in DecArgs
    /\ dcm_data \in DecPayloads
    /\ \E other \in DecPayloads :
          /\ stl_data = IF args.mode = "stl" THEN other ELSE <<>>
          /\ xor_key = IF args.mode = "key" THEN other ELSE <<>>
    /\ \E f \in {<<<<>>, 0>>, <<<<1, 9, 2, 9>>, 2>>} :
          /\ facet_data = f[1]
          /\ facet_count = f[2]
    /\ vertices = <<>>
    /\ faces = <<>>
    /\ written = {}
    /\ IdleSeg
    /\ IdleRest

\* Lines 265-272: --info prints the metadata and returns.
DecInfo ==
    /\ pc = "dec_loaded"
    /\ args.mode = "info"
    /\ pc' = "dec_done"
    /\ UNCHANGED <<dcm_data, stl_data, xor_key, kpaVars, decVars, segments, restVars>>

\* Lines 279-299: the key is read, or derived from the reference (a size
\* mismatch raises ValueError) and saved on --save-key; with neither option
\* main exits with status 1.
DecGetKey ==
    /\ pc = "dec_loaded"
    /\ args.mode # "info"
    /\ CASE args.mode = "key" ->
              /\ pc' = "dec_keyed"
              /\ UNCHANGED <<xor_key, written>>
         [] args.mode = "stl" /\ Len(dcm_data) # Len(stl_data) ->
              /\ pc' = "dec_raised"
              /\ UNCHANGED <<xor_key, written>>
         [] args.mode = "stl" /\ Len(dcm_data) = Len(stl_data) ->
              /\ pc' = "dec_keyed"
              /\ xor_key' = derive_xor_key(dcm_data, stl_data)
              /\ written' = IF args.save_key THEN {<<"key", xor_key'>>}
                            ELSE written
         [] OTHER ->
              /\ pc' = "dec_exit"
              /\ UNCHANGED <<xor_key, written>>
    /\ UNCHANGED <<dcm_data, stl_data, kpaVars, args, facet_data, facet_count,
                   vertices, faces, segments, restVars>>

\* Lines 301-306: the vertices are decrypted (a key shorter than the payload
\* raises ValueError) and the facets decoded.
DecDecrypt ==
    /\ pc = "dec_keyed"
    /\ IF Len(xor_key) < Len(dcm_data)
       THEN /\ pc' = "dec_raised"
            /\ UNCHANGED <<vertices, faces>>
       ELSE /\ pc' = "dec_decoded"
            /\ vertices' = decrypt_vertices(dcm_data, xor_key)
            /\ faces' = decode_facets_placeholder(facet_data, facet_count,
                                                  Len(vertices'))
    /\ UNCHANGED <<dcm_data, stl_data, xor_key, kpaVars, args, facet_data,
                   facet_count, written, segments, restVars>>

\* Lines 308-330: without faces only the vertices are saved; with faces the
\* mesh is written as an ASCII or binary STL.
DecWrite ==
    /\ pc = "dec_decoded"
    /\ written' =
          IF ~args.output THEN written
          ELSE IF faces = <<>>
               THEN written \cup {<<"vertices_bin", PackVertices(vertices)>>}
               ELSE written \cup
                    {<<IF args.ascii THEN "stl_ascii" ELSE "stl_binary",
                       <<vertices, faces>>>>}
    /\ pc' = "dec_done"
    /\ UNCHANGED <<dcm_data, stl_data, xor_key, kpaVars, args, facet_data,
                   facet_count, vertices, faces, segments, restVars>>

NextDec == DecInfo \/ DecGetKey \/ DecDecrypt \/ DecWrite

SpecDec == InitDec /\ [][NextDec]_vars

(***************************************************************************)
(* Facet segmentation: facet_decoder.py and dcm_decoder_experimental.py     *)
(***************************************************************************)

\* A split loop that forgets the segment still open at the end of the data.
RECURSIVE SplitLoopNoFlush(_, _, _, _)
SplitLoopNoFlush(data, i, segs, current) ==
    IF i > Len(data) THEN segs
    ELSE IF data[i] = Delimiter
         THEN SplitLoopNoFlush(data, i + 1,
                  IF current # <<>> THEN Append(segs, current) ELSE segs, <<>>)
         ELSE SplitLoopNoFlush(data, i + 1, segs, Append(current, data[i]))

\* The split loop of try_decode_facets, attempt_facet_decode and
\* analyze_segment_patterns from byte i on: a delimiter closes the current
\* segment, which is kept only when it is not empty; so is the last one.
RECURSIVE SplitLoop(_, _, _, _)
SplitLoop(data, i, segs, current) ==
    IF i > Len(data)
    THEN IF current # <<>> THEN Append(segs, current) ELSE segs
    ELSE IF data[i] = Delimiter
         THEN SplitLoop(data, i + 1,
                  IF current # <<>> THEN Append(segs, current) ELSE segs, <<>>)
         ELSE SplitLoop(data, i + 1, segs, Append(current, data[i]))

\* analyze_facet_structure: the slices between the delimiter positions
\* (0-based positions, start the 0-based start of the open slice).
RECURSIVE SliceLoop(_, _, _, _)
SliceLoop(data, positions, start, segs) ==
    IF positions = <<>>
    THEN IF start < Len(data)
         THEN Append(segs, SubSeq(data, start + 1, Len(data))) ELSE segs
    ELSE LET pos == Head(positions)
         IN  SliceLoop(data, Tail(positions), pos + 1,
                 IF pos > start THEN Append(segs, SubSeq(data, start + 1, pos))
                 ELSE segs)

\* positions_9 = [i for i, b in enumerate(data) if b == 9]
RECURSIVE Positions(_, _)
Positions(data, i) ==
    IF i > Len(data) THEN <<>>
    ELSE IF data[i] = Delimiter THEN <<i - 1>> \o Positions(data, i + 1)
    ELSE Positions(data, i + 1)

\* try_decode_facets and attempt_facet_decode: the segments, and the faces
\* returned (None, kept as the empty list).
try_decode_facets(data, count, vertex_count) ==
    [segments |-> SplitLoop(data, 1, <<>>, <<>>), faces |-> <<>>]

attempt_facet_decode(data, count) ==
    [segments |-> SplitLoop(data, 1, <<>>, <<>>), faces |-> <<>>]

FacetBytes == {1, 2, Delimiter}

FacetPayloads == UNION {[1..n -> FacetBytes] : n \in 0..MaxFacetLen}

InitSeg ==
    /\ pc = "seg_loaded"
    /\ IdleKPA
    /\ dcm_data = <<>>
    /\ stl_data = <<>>
    /\ xor_key = <<>>
    /\ args = [mode |-> "none", output |-> FALSE, ascii |-> FALSE,
               save_key |-> FALSE]
    /\ facet_data \in FacetPayloads
    /\ facet_count \in {0, 2}
    /\ vertices = <<>>
    /\ faces = <<>>
    /\ written = {}
    /\ segments = <<>>
    /\ IdleRest

\* facet_decoder.try_decode_facets.
SegTryDecode ==
    /\ pc = "seg_loaded"
    /\ LET r == try_decode_facets(facet_data, facet_count, 0)
       IN  segments' = r.segments /\ faces' = r.faces
    /\ pc' = "seg_try_done"
    /\ UNCHANGED <<dcm_data, stl_data, xor_key, kpaVars, args, facet_data,
                   facet_count, vertices, written, restVars>>

\* dcm_decoder_experimental.attempt_facet_decode: the ratio printed on line
\* 301 raises ZeroDivisionError for facet_count 0.
SegAttemptDecode ==
    /\ pc = "seg_loaded"
    /\ LET r == attempt_facet_decode(facet_data, facet_count)
       IN  /\ segments' = r.segments
           /\ IF facet_count = 0
              THEN pc' = "seg_raised" /\ UNCHANGED faces
              ELSE pc' = "seg_attempt_done" /\ faces' = r.faces
    /\ UNCHANGED <<dcm_data, stl_data, xor_key, kpaVars, args, facet_data,
                   facet_count, vertices, written, restVars>>

\* dcm_decoder_experimental.analyze_facet_structure, lines 90-112: the ratio
\* of line 101 raises ZeroDivisionError for facet_count 0 when the payload
\* holds more than one delimiter.
SegAnalyzeStructure ==
    /\ pc = "seg_loaded"
    /\ LET positions_9 == Positions(facet_data, 1)
       IN  IF Len(positions_9) > 1 /\ facet_count = 0
           THEN pc' = "seg_raised" /\ UNCHANGED segments
           ELSE /\ pc' = "seg_structure_done"
                /\ segments' = SliceLoop(facet_data, positions_9, 0, <<>>)
    /\ UNCHANGED <<dcm_data, stl_data, xor_key, kpaVars, args, facet_data,
                   facet_count, vertices, faces, written, restVars>>

\* facet_decoder.analyze_segment_patterns, lines 151-163, for one sample.
SegAnalyzePatterns ==
    /\ pc = "seg_loaded"
    /\ segments' = SplitLoop(facet_data, 1, <<>>, <<>>)
    /\ pc' = "seg_patterns_done"
    /\ UNCHANGED <<dcm_data, stl_data, xor_key, kpaVars, args, facet_data,
                   facet_count, vertices, faces, written, restVars>>

NextSeg ==
    SegTryDecode \/ SegAttemptDecode \/ SegAnalyzeStructure \/ SegAnalyzePatterns

SpecSeg == InitSeg /\ [][NextSeg]_vars

\* The facet decoders of the three tools together.
SpecFacets == (InitDec \/ InitSeg) /\ [][NextDec \/ NextSeg]_vars

(***************************************************************************)
(* batch_pair_analyzer.py: the container loader.                            *)
(*                                                                          *)
(* A container file is a record: well_formed (the XML parses), the          *)
(* SignatureHash text as hexadecimal digits, whether the CE element is      *)
(* present (Facets and Vertices are looked up anywhere in the document by   *)
(* load_dcm_data, under CE by parse_dcm_file), and for each of Facets and   *)
(* Vertices whether the element is present, its base64 text and its         *)
(* base64_encoded_bytes attribute.  A base64 text is a sequence of          *)
(* characters 0..63, with Pad for '='.  A loader returns a record with a    *)
(* raised flag in place of a Python exception.                              *)
(***************************************************************************)
Pad == 64

\* The text's characters of the base64 alphabet.
DataChars(text) == SelectSeq(text, LAMBDA c : c # Pad)

\* base64.b64decode raises binascii.Error on a truncated or unpadded text.
B64Raises(text) ==
    LET n == Len(DataChars(text))
        pads == Len(text) - n
    IN  \/ n % 4 = 1
        \/ n % 4 = 2 /\ pads < 2
        \/ n % 4 = 3 /\ pads < 1

\* base64.b64decode: every four characters carry three bytes.
B64Bytes(text) ==
    LET d == DataChars(text)
        ch(i) == IF i <= Len(d) THEN d[i] ELSE 0
    IN  [j \in 1..((3 * Len(d)) \div 4) |->
            LET g == 4 * ((j - 1) \div 3)
                r == (j - 1) % 3
            IN  CASE r = 0 -> 4 * ch(g + 1) + (ch(g + 2) \div 16)
                  [] r = 1 -> 16 * (ch(g + 2) % 16) + (ch(g + 3) \div 4)
                  [] r = 2 -> 64 * (ch(g + 3) % 4) + ch(g + 4)]

\* The base64 text a writer of the container produces for data.
B64Encode(data) ==
    LET by(j) == IF j <= Len(data) THEN data[j] ELSE 0
        quads == (Len(data) + 2) \div 3
    IN  [i \in 1..(4 * quads) |->
            LET g == 3 * ((i - 1) \div 4)
                r == (i - 1) % 4
            IN  CASE r = 0 -> by(g + 1) \div 4
                  [] r = 1 -> 16 * (by(g + 1) % 4) + (by(g + 2) \div 16)
                  [] r = 2 -> IF g + 2 > Len(data) THEN Pad
                              ELSE 4 * (by(g + 2) % 16) + (by(g + 3) \div 64)
                  [] r = 3 -> IF g + 3 > Len(data) THEN Pad
                              ELSE by(g + 3) % 64]

\* What load_dcm_data returns when it raises.
LoadRaised ==
    [raised |-> TRUE, signature_hash |-> <<>>, ce_version |-> "",
     facet_count |-> 0, facet_data |-> <<>>, vertex_data |-> <<>>]

load_dcm_data(c) ==
    IF ~c.well_formed THEN LoadRaised
    ELSE IF c.has_facets /\ c.facets_text # <<>> /\ B64Raises(c.facets_text)
    THEN LoadRaised
    ELSE IF c.has_vertices /\ c.vertices_text # <<>>
            /\ B64Raises(c.vertices_text)
    THEN LoadRaised
    ELSE [raised |-> FALSE,
          signature_hash |-> c.signature_hash,
          ce_version |-> IF c.has_ce THEN "ce" ELSE "",
          facet_count |-> IF c.has_facets THEN c.facet_count ELSE 0,
          facet_data |-> IF c.has_facets /\ c.facets_text # <<>>
                         THEN B64Bytes(c.facets_text) ELSE <<>>,
          vertex_data |-> IF c.has_vertices /\ c.vertices_text # <<>>
                          THEN B64Bytes(c.vertices_text) ELSE <<>>]

\* A reference file is a record: readable, and the raw bytes of its
\* de-duplicated vertices.
load_stl_vertices_raw(s) ==
    IF s.readable THEN [raised |-> FALSE, data |-> s.vertex_data]
    ELSE [raised |-> TRUE, data |-> <<>>]

(***************************************************************************)
(* batch_pair_analyzer.py: analyze_pair, process_pairs, analyze_database    *)
(* and main.  A pair of the work list is a record of the two paths (a path  *)
(* is <<directory, base name>>) and the two files found there.              *)
(***************************************************************************)
\* hashlib.md5(...).hexdigest(): the digest stands for the data it hashes;
\* two different keys of the model never share a digest.
md5(data) == <<"md5", data>>

\* xor_key[:64]
First64 == 64

\* The record of the except branch.
ErrorAnalysis(p, msg) ==
    [dcm_path |-> p.dcm_path, stl_path |-> p.stl_path,
     signature_hash |-> <<>>, facet_count |-> 0, vertex_count |-> 0,
     facet_bytes |-> 0, vertex_bytes |-> 0, key_hash_md5 |-> <<>>,
     key_first_64_hex |-> <<>>, key_xor_sighash |-> <<>>, error |-> msg]

\* The error field is "" where the code leaves it None.
analyze_pair(p) ==
    LET dcm == load_dcm_data(p.dcm)
        stl == load_stl_vertices_raw(p.stl)
    IN  IF dcm.raised THEN ErrorAnalysis(p, "load_dcm_data raised")
        ELSE IF stl.raised
        THEN ErrorAnalysis(p, "load_stl_vertices_raw raised")
        ELSE
        LET mismatch == Len(dcm.vertex_data) # Len(stl.data)
            min_len == Min(Len(dcm.vertex_data), Len(stl.data))
            dcm_vertex_data == Prefix(dcm.vertex_data, min_len)
            stl_vertex_data == Prefix(stl.data, min_len)
            key == XorBytes(dcm_vertex_data, stl_vertex_data)
            sig == dcm.signature_hash
            sig_bytes == FromHex(sig)
        IN  IF Len(sig) % 2 = 1
            THEN ErrorAnalysis(p, "bytes.fromhex raised")
            ELSE
            [dcm_path |-> p.dcm_path, stl_path |-> p.stl_path,
             signature_hash |-> sig,
             facet_count |-> dcm.facet_count,
             vertex_count |-> Len(dcm_vertex_data) \div 12,
             facet_bytes |-> Len(dcm.facet_data),
             vertex_bytes |-> Len(dcm_vertex_data),
             key_hash_md5 |-> md5(key),
             key_first_64_hex |-> Hex(Prefix(key, First64)),
             key_xor_sighash |->
                 IF sig_bytes # <<>> /\ Len(key) >= Len(sig_bytes)
                 THEN Hex(XorBytes(Prefix(key, Len(sig_bytes)), sig_bytes))
                 ELSE <<>>,
             error |-> IF mismatch THEN "Size mismatch" ELSE ""]

\* results.append(asdict(analysis)), with a variant that drops the record
\* of a failed pair.
AppendOnlySuccessful(list, analysis) ==
    IF analysis.error = "" THEN Append(list, analysis) ELSE list

AppendAnalysis(list, analysis) == Append(list, analysis)

\* if save_keys and keys_dir and not analysis.error
\* A variant that regenerates the key of a pair whatever its analysis said.
ShouldSaveKeyAlways(a, analysis) == a.save_keys /\ a.keys_dir # ""

ShouldSaveKey(a, analysis) ==
    a.save_keys /\ a.keys_dir # "" /\ analysis.error = ""

\* os.path.join(keys_dir, os.path.basename(dcm_path) + '.key')
KeyPath(a, p) == <<a.keys_dir, p.dcm_path[2], "key">>

\* open(key_path, 'wb').write(xor_key): the file is created or replaced.
WriteFile(files, path, content) ==
    {f \in files : f[1] # path} \cup {<<path, content>>}

\* len(set(keys)) > 1, with a variant that is off by one.
MoreThanTwoKeys(keys) == Cardinality(keys) > 2

SeveralKeys(keys) == Cardinality(keys) > 1

\* An aggregation over every record that carries a key, truncated pairs
\* included.
analyze_database_keyed(database) ==
    LET successful == SelectSeq(database, LAMBDA r : r.key_hash_md5 # <<>>)
        key_hashes == {successful[i].key_hash_md5 : i \in 1..Len(successful)}
        sigs == {successful[i].signature_hash : i \in 1..Len(successful)}
        sig_to_key(sig) ==
            {successful[i].key_hash_md5 :
                i \in {k \in 1..Len(successful) :
                          successful[k].signature_hash = sig}}
        flagged == {sig \in sigs : SeveralKeys(sig_to_key(sig))}
    IN  IF successful = <<>>
        THEN [total |-> Len(database), successful |-> 0,
              errors |-> Len(database), analysed |-> FALSE,
              unique_keys |-> 0, flagged |-> {},
              same_sig_different_key |-> 0, conclusion |-> FALSE]
        ELSE [total |-> Len(database), successful |-> Len(successful),
              errors |-> Len(database) - Len(successful), analysed |-> TRUE,
              unique_keys |-> Cardinality(key_hashes), flagged |-> flagged,
              same_sig_different_key |-> Cardinality(flagged),
              conclusion |-> Cardinality(flagged) = 0]

analyze_database(database) ==
    LET successful == SelectSeq(database, LAMBDA r : r.error = "")
        key_hashes == {successful[i].key_hash_md5 : i \in 1..Len(successful)}
        sigs == {successful[i].signature_hash : i \in 1..Len(successful)}
        sig_to_key(sig) ==
            {successful[i].key_hash_md5 :
                i \in {k \in 1..Len(successful) :
                          successful[k].signature_hash = sig}}
        flagged == {sig \in sigs : SeveralKeys(sig_to_key(sig))}
    IN  IF successful = <<>>
        THEN [total |-> Len(database), successful |-> 0,
              errors |-> Len(database), analysed |-> FALSE,
              unique_keys |-> 0, flagged |-> {},
              same_sig_different_key |-> 0, conclusion |-> FALSE]
        ELSE [total |-> Len(database), successful |-> Len(successful),
              errors |-> Len(database) - Len(successful), analysed |-> TRUE,
              unique_keys |-> Cardinality(key_hashes), flagged |-> flagged,
              same_sig_different_key |-> Cardinality(flagged),
              conclusion |-> Cardinality(flagged) = 0]

\* The container a scanner writes for a signature and a vertex payload.
Container(sig, data) ==
    [well_formed |-> TRUE, signature_hash |-> sig, has_ce |-> TRUE,
     has_facets |-> TRUE, facets_text |-> <<>>, facets_declared |-> 0,
     facet_count |-> 0,
     has_vertices |-> TRUE, vertices_text |-> B64Encode(data),
     vertices_declared |-> Len(data)]

Reference(data) == [readable |-> TRUE, vertex_data |-> data]

SigA == <<10, 10>>
SigB == <<11, 11>>

\* The files a pair's two paths can hold: a container that is not XML, a
\* reference that cannot be read, a signature that is not hexadecimal, a
\* payload one byte longer than the reference, and three good pairs, two
\* of them with one signature and different keys.
PairFiles ==
    { [dcm |-> [Container(SigA, <<1>>) EXCEPT !.well_formed = FALSE],
       stl |-> Reference(<<0>>)],
      [dcm |-> Container(SigA, <<1>>),
       stl |-> [Reference(<<0>>) EXCEPT !.readable = FALSE]],
      [dcm |-> Container(<<10>>, <<1>>), stl |-> Reference(<<0>>)],
      [dcm |-> Container(SigA, <<1, 2>>), stl |-> Reference(<<0>>)],
      [dcm |-> Container(SigA, <<1>>), stl |-> Reference(<<0>>)],
      [dcm |-> Container(SigA, <<2>>), stl |-> Reference(<<0>>)],
      [dcm |-> Container(SigB, <<1>>), stl |-> Reference(<<0>>)] }

\* Two directories, one base name in both.
DcmPaths == {<<"a", "x">>, <<"b", "x">>, <<"a", "y">>}

\* The work lists: every path holds one pair of files, and a path may be
\* listed more than once.
WorkLists ==
    { [i \in 1..Len(lst) |->
          [dcm_path |-> lst[i], stl_path |-> lst[i],
           dcm |-> fs[lst[i]].dcm, stl |-> fs[lst[i]].stl]] :
        lst \in UNION {[1..n -> DcmPaths] : n \in 0..MaxPairs},
        fs \in [DcmPaths -> PairFiles] }

BatchArgs ==
    { [save_keys |-> s, keys_dir |-> "extracted_keys",
       has_limit |-> h, limit |-> l] :
        s \in BOOLEAN, h \in BOOLEAN, l \in 0..MaxPairs }

InitBatch ==
    /\ pc = "bat_main"
    /\ pairs \in WorkLists
    /\ \E a \in {b \in BatchArgs : b.has_limit \/ b.limit = 0} : args = a
    /\ idx = 0
    /\ records = <<>>
    /\ db = <<>>
    /\ key_files = {}
    /\ report = NoReport
    /\ dcm_data = <<>> /\ stl_data = <<>> /\ xor_key = <<>>
    /\ IdleKPA
    /\ facet_data = <<>> /\ facet_count = 0
    /\ vertices = <<>> /\ faces = <<>> /\ written = {}
    /\ IdleSeg
    /\ IdleCanon
    /\ IdleParse
    /\ IdleExt

\* main: no pairs is fatal; a limit truncates the work list.
BatMain ==
    /\ pc = "bat_main"
    /\ IF pairs = <<>>
       THEN pc' = "bat_exit" /\ UNCHANGED pairs
       ELSE /\ pc' = "bat_loop"
            /\ pairs' = IF args.has_limit /\ args.limit # 0
                        THEN Prefix(pairs, args.limit) ELSE pairs
    /\ UNCHANGED <<dcm_data, stl_data, xor_key, kpaVars, decVars, segments,
                   canonVars, parseVars, extVars,
                   idx, records, db, key_files, report>>

\* One iteration of process_pairs' loop.  The key is regenerated from the
\* two files outside any try block.
BatProcessPair ==
    /\ pc = "bat_loop"
    /\ idx < Len(pairs)
    /\ LET p == pairs[idx + 1]
           analysis == analyze_pair(p)
           dcm == load_dcm_data(p.dcm)
           stl == load_stl_vertices_raw(p.stl)
       IN  /\ records' = AppendAnalysis(records, analysis)
           /\ IF ShouldSaveKey(args, analysis)
              THEN IF dcm.raised \/ stl.raised
                   THEN pc' = "bat_raised" /\ UNCHANGED <<idx, key_files>>
                   ELSE /\ key_files' =
                              WriteFile(key_files, KeyPath(args, p),
                                        XorBytes(dcm.vertex_data, stl.data))
                        /\ idx' = idx + 1
                        /\ pc' = "bat_loop"
              ELSE /\ idx' = idx + 1
                   /\ UNCHANGED <<pc, key_files>>
    /\ UNCHANGED <<dcm_data, stl_data, xor_key, kpaVars, decVars, segments,
                   canonVars, parseVars, extVars,
                   pairs, db, report>>

\* json.dump(results, f) after the loop.
BatSaveResults ==
    /\ pc = "bat_loop"
    /\ idx = Len(pairs)
    /\ db' = records
    /\ pc' = "bat_saved"
    /\ UNCHANGED <<dcm_data, stl_data, xor_key, kpaVars, decVars, segments,
                   canonVars, parseVars, extVars,
                   pairs, idx, records, key_files, report>>

\* A variant that aggregates the records gathered so far, inside the loop.
BatAnalyzeEarly ==
    /\ pc = "bat_loop"
    /\ report' = analyze_database(records)
    /\ pc' = "bat_done"
    /\ UNCHANGED <<dcm_data, stl_data, xor_key, kpaVars, decVars, segments,
                   canonVars, parseVars, extVars,
                   pairs, idx, records, db, key_files>>

\* main's analyze_database(args.output).
BatAnalyzeDatabase ==
    /\ pc = "bat_saved"
    /\ report' = analyze_database(db)
    /\ pc' = "bat_done"
    /\ UNCHANGED <<dcm_data, stl_data, xor_key, kpaVars, decVars, segments,
                   canonVars, parseVars, extVars,
                   pairs, idx, records, db, key_files>>

NextBatch ==
    \/ BatMain
    \/ BatProcessPair
    \/ BatSaveResults
    \/ BatAnalyzeDatabase

SpecBatch == InitBatch /\ [][NextBatch]_vars

\* The run is interrupted inside the loop (KeyboardInterrupt is not an
\* Exception, nothing catches it): the process ends, its results list is
\* gone, and json.dump, which follows the loop, has not run.
BatInterrupt ==
    /\ pc = "bat_loop"
    /\ idx < Len(pairs)
    /\ pc' = "bat_interrupted"
    /\ records' = <<>>
    /\ UNCHANGED <<dcm_data, stl_data, xor_key, kpaVars, decVars, segments,
                   canonVars, parseVars, extVars,
                   pairs, idx, db, key_files, report>>

SpecBatchInterrupt == InitBatch /\ [][NextBatch \/ BatInterrupt]_vars

(***************************************************************************)
(* facet_decoder.py: load_stl_faces_binary and load_stl_faces_ascii.        *)
(*                                                                          *)
(* A coordinate is a record: nan, and for a number its value v in units of  *)
(* 1e-7.  A binary float never lies halfway between two 6-decimal numbers,  *)
(* so the inputs have no v with v % 10 = 5.  A triangle is three corners,   *)
(* a corner three coordinates.  The dict vertex_map is the sequence of its  *)
(* <<key, index>> entries in insertion order.                               *)
(***************************************************************************)
Num(v) == [nan |-> FALSE, v |-> v]

NaN == [nan |-> TRUE, v |-> 0]

\* A rounding that always moves on to the next 6-decimal number.
round6_next(c) == IF c.nan THEN c ELSE Num(((c.v \div 10) + 1) * 10)

\* round(x, 6)
round6(c) == IF c.nan THEN c ELSE Num(((c.v + 5) \div 10) * 10)

\* (round(x, 6), round(y, 6), round(z, 6))
VertexKey(corner) == <<round6(corner[1]), round6(corner[2]), round6(corner[3])>>

\* Python's == on two floats: a NaN equals nothing.
FloatEq(a, b) == ~a.nan /\ ~b.nan /\ a.v = b.v

\* == on two keys that are different tuple objects.
KeyEq(k1, k2) == \A n \in 1..3 : FloatEq(k1[n], k2[n])

\* vertex_key in vertex_map, with a variant that never finds the key.
NeverInMap(map, key) == FALSE

InMap(map, key) == \E n \in 1..Len(map) : KeyEq(map[n][1], key)

\* vertex_map[vertex_key] for a key that an earlier corner inserted.
Lookup(map, key) ==
    map[CHOOSE n \in 1..Len(map) : KeyEq(map[n][1], key)][2]

\* The body of the corner loop on the state st of the three locals.  A key
\* that was just inserted is found again by identity, NaN or not.
AddCorner(st, corner) ==
    LET vertex_key == VertexKey(corner)
    IN  IF ~InMap(st.vertex_map, vertex_key)
        THEN [vertex_map |->
                  Append(st.vertex_map, <<vertex_key, Len(st.vertices)>>),
              vertices |-> Append(st.vertices, vertex_key),
              face_indices |-> Append(st.face_indices, Len(st.vertices))]
        ELSE [st EXCEPT !.face_indices =
                  Append(@, Lookup(st.vertex_map, vertex_key))]

\* One iteration of the triangle loop.
AddTriangle(vs, map, tri) ==
    AddCorner(AddCorner(AddCorner(
        [vertex_map |-> map, vertices |-> vs, face_indices |-> <<>>],
        tri[1]), tri[2]), tri[3])

\* The whole of a loader's loop, from the empty locals, as a function of
\* the triangle stream: the vertices and faces it ends with.
RECURSIVE CanonLoop(_, _, _, _)
CanonLoop(vs, map, fs, stream) ==
    IF stream = <<>>
    THEN [vertices |-> vs, faces |-> fs]
    ELSE LET st == AddTriangle(vs, map, Head(stream))
         IN  CanonLoop(st.vertices, st.vertex_map,
                       Append(fs, st.face_indices), Tail(stream))

Canonicalise(stream) == CanonLoop(<<>>, <<>>, <<>>, stream)

Point(x, y, z) == <<Num(x), Num(y), Num(z)>>

PtA == Point(0, 0, 0)
PtB == Point(20, 0, 0)
PtC == Point(0, 20, 0)
PtD == Point(20, 20, 0)
NearA == Point(4, -4, 0)
NearB == Point(16, 0, 0)
PtNaN == <<NaN, Num(0), Num(0)>>

\* Two triangles that share the edge B-C, a triangle whose corners round
\* to the first one's, a degenerate triangle and a fifth triangle.
AsciiTriangles ==
    { <<PtB, PtA, PtC>>, <<PtC, PtB, PtD>>, <<NearA, NearB, PtC>>,
      <<PtA, PtA, PtB>>, <<PtD, PtC, NearA>> }

\* Any four bytes are a float of a binary file, a NaN included.
BinaryTriangles == AsciiTriangles \cup { <<PtNaN, PtA, PtNaN>> }

Streams(set) == UNION {[1..n -> set] : n \in 0..MaxTriangles}

InitCanon ==
    /\ pc = "canon_loaded"
    /\ \E f \in {"binary", "ascii"} :
          /\ args = [format |-> f]
          /\ triangles \in Streams(IF f = "binary" THEN BinaryTriangles
                                   ELSE AsciiTriangles)
    /\ vertex_map = <<>>
    /\ vertices = <<>>
    /\ faces = <<>>
    /\ idx = 0
    /\ dcm_data = <<>> /\ stl_data = <<>> /\ xor_key = <<>>
    /\ IdleKPA
    /\ facet_data = <<>> /\ facet_count = 0 /\ written = {}
    /\ IdleSeg
    /\ pairs = <<>> /\ records = <<>> /\ db = <<>>
    /\ key_files = {} /\ report = NoReport
    /\ IdleParse
    /\ IdleExt

CanonStep ==
    /\ pc = "canon_loaded"
    /\ idx < Len(triangles)
    /\ LET st == AddTriangle(vertices, vertex_map, triangles[idx + 1])
       IN  /\ vertices' = st.vertices
           /\ vertex_map' = st.vertex_map
           /\ faces' = Append(faces, st.face_indices)
    /\ idx' = idx + 1
    /\ UNCHANGED <<pc, dcm_data, stl_data, xor_key, kpaVars, args,
                   facet_data, facet_count, written, segments, pairs,
                   records, db, key_files, report, triangles, parseVars,
                   extVars>>

\* load_stl_faces_binary: for _ in range(num_triangles)
CanonBinaryTriangle == args.format = "binary" /\ CanonStep

\* load_stl_faces_ascii: for match in facet_pattern.finditer(content)
CanonAsciiTriangle == args.format = "ascii" /\ CanonStep

\* return faces, len(vertices)
CanonReturn ==
    /\ pc = "canon_loaded"
    /\ idx = Len(triangles)
    /\ pc' = "canon_done"
    /\ UNCHANGED <<dcm_data, stl_data, xor_key, kpaVars, decVars, segments,
                   restVars>>

NextCanon ==
    \/ CanonBinaryTriangle
    \/ CanonAsciiTriangle
    \/ CanonReturn

SpecCanon == InitCanon /\ [][NextCanon]_vars

(***************************************************************************)
(* dcm_analyzer.py: parse_dcm_file, next to the batch analyser's            *)
(* load_dcm_data, on one container.  An element without text has the empty  *)
(* text.                                                                    *)
(***************************************************************************)
ParseRaised ==
    [tool |-> "dcm_analyzer", raised |-> TRUE, facet_count |-> 0,
     facet_bytes |-> 0, vertex_bytes |-> 0, facet_data |-> <<>>,
     vertex_data |-> <<>>, signature_hash |-> <<>>]

\* facets.get(...) and facets.text.strip() raise AttributeError on a
\* missing element or text; the base64_encoded_bytes attributes are read
\* into facet_bytes_attr and vertex_bytes_attr, which nothing uses.
parse_dcm_file(c) ==
    IF ~c.well_formed \/ ~c.has_ce THEN ParseRaised
    ELSE IF ~c.has_facets \/ c.facets_text = <<>> \/ B64Raises(c.facets_text)
    THEN ParseRaised
    ELSE IF ~c.has_vertices \/ c.vertices_text = <<>>
            \/ B64Raises(c.vertices_text)
    THEN ParseRaised
    ELSE [tool |-> "dcm_analyzer", raised |-> FALSE,
          facet_count |-> c.facet_count,
          facet_bytes |-> Len(B64Bytes(c.facets_text)),
          vertex_bytes |-> Len(B64Bytes(c.vertices_text)),
          facet_data |-> B64Bytes(c.facets_text),
          vertex_data |-> B64Bytes(c.vertices_text),
          signature_hash |-> c.signature_hash]

\* The byte strings of a payload.
PayloadBytes == UNION {[1..n -> {0, 255}] : n \in 0..MaxPayload}

\* The texts of a payload element: what a writer encodes, and two texts
\* that are cut short.
PayloadTexts == {B64Encode(b) : b \in PayloadBytes} \cup {<<0>>, <<0, 16>>}

Containers ==
    { [well_formed |-> w, signature_hash |-> SigA, has_ce |-> hc,
       has_facets |-> hf, facets_text |-> ft, facets_declared |-> fd,
       facet_count |-> 0,
       has_vertices |-> hv, vertices_text |-> vt, vertices_declared |-> vd] :
        w \in BOOLEAN, hc \in BOOLEAN, hf \in BOOLEAN, hv \in BOOLEAN,
        ft \in {<<>>, B64Encode(<<Delimiter>>)}, fd \in 0..1,
        vt \in PayloadTexts, vd \in 0..(MaxPayload + 1) }

InitParse ==
    /\ pc = "parse_start"
    /\ container \in Containers
    /\ parsed = NoParse
    /\ dcm_data = <<>> /\ stl_data = <<>> /\ xor_key = <<>>
    /\ IdleKPA
    /\ IdleDec
    /\ IdleSeg
    /\ IdleBatch
    /\ IdleCanon
    /\ IdleExt

\* dcm_analyzer's parser on the container.
ParseDcmFile ==
    /\ pc = "parse_start"
    /\ parsed' = parse_dcm_file(container)
    /\ pc' = "parse_returned"
    /\ UNCHANGED <<dcm_data, stl_data, xor_key, kpaVars, decVars, segments,
                   batchVars, canonVars, container, extVars>>

\* The batch analyser's loader on the container.
LoadDcmData ==
    /\ pc = "parse_start"
    /\ parsed' = [tool |-> "batch_pair_analyzer"] @@ load_dcm_data(container)
    /\ pc' = "parse_returned"
    /\ UNCHANGED <<dcm_data, stl_data, xor_key, kpaVars, decVars, segments,
                   batchVars, canonVars, container, extVars>>

NextParse ==
    \/ ParseDcmFile
    \/ LoadDcmData

SpecParse == InitParse /\ [][NextParse]_vars

(***************************************************************************)
(* The three STL loaders: load_stl_vertices_raw (batch_pair_analyzer.py),   *)
(* load_stl_faces (facet_decoder.py) and load_stl (sdx_test_harness.py).    *)
(*                                                                          *)
(* A reference file is described by what the loaders look at: its length,   *)
(* its first five bytes (head), whether and where the lower-case token      *)
(* 'facet' first occurs, the triangle count in bytes 80..84, the number of  *)
(* well-formed facet blocks of its text and the number of vertex lines      *)
(* outside such blocks.  A loader returns a record with a raised flag in    *)
(* place of a Python exception.                                             *)
(***************************************************************************)
HeaderLen == 84      \* 80 bytes of header and the uint32 triangle count
TriangleLen == 50    \* normal, three vertices, attribute
VertexEnd == 48      \* offset of the end of a triangle's third vertex
FirstKilobyte == 1000

\* data[:5].lower() == b'solid'
StartsSolid(f) == f.head \in {"solid", "SOLID"}

\* A token test that searches the whole file.
FacetAnywhere(f) == f.has_facet

\* b'facet' in data[:1000]
FacetInFirstKilobyte(f) == f.has_facet /\ f.facet_pos + 5 <= FirstKilobyte

\* What a loader returns when it raises.
StlRaised(name) ==
    [loader |-> name, raised |-> TRUE, format |-> "none", faces |-> 0,
     corners |-> 0]

\* The binary loops: struct.unpack raises on a slice that is cut short.
\* The attribute bytes of a triangle are skipped and never read.
ParseBinary(name, f) ==
    IF f.length < HeaderLen THEN StlRaised(name)
    ELSE IF f.num_triangles > 0
            /\ f.length < HeaderLen + TriangleLen * (f.num_triangles - 1)
                          + VertexEnd
    THEN StlRaised(name)
    ELSE [loader |-> name, raised |-> FALSE, format |-> "binary",
          faces |-> f.num_triangles, corners |-> 3 * f.num_triangles]

\* load_stl_vertices_raw on the file's bytes; load_stl_vertices_ascii
\* collects every vertex line.
load_stl_vertices_by_format(f) ==
    IF StartsSolid(f) /\ FacetInFirstKilobyte(f)
    THEN [loader |-> "batch_pair_analyzer", raised |-> FALSE,
          format |-> "ascii", faces |-> 0,
          corners |-> 3 * f.facet_blocks + f.stray_vertices]
    ELSE ParseBinary("batch_pair_analyzer", f)

\* load_stl_faces_ascii and parse_stl_ascii collect the facet blocks.
load_stl_faces(f) ==
    IF StartsSolid(f) /\ FacetInFirstKilobyte(f)
    THEN [loader |-> "facet_decoder", raised |-> FALSE, format |-> "ascii",
          faces |-> f.facet_blocks, corners |-> 3 * f.facet_blocks]
    ELSE ParseBinary("facet_decoder", f)

load_stl(f) ==
    IF StartsSolid(f)
    THEN IF FacetInFirstKilobyte(f)
         THEN [loader |-> "sdx_test_harness", raised |-> FALSE,
               format |-> "ascii", faces |-> f.facet_blocks,
               corners |-> 3 * f.facet_blocks]
         ELSE ParseBinary("sdx_test_harness", f)
    ELSE ParseBinary("sdx_test_harness", f)

\* The lengths around the end of each triangle, and a long file.
StlLengths ==
    {0, 5, HeaderLen - 1, 2 * FirstKilobyte}
        \cup {HeaderLen + TriangleLen * n + d :
                 n \in 0..MaxStlTris, d \in {-3, -2, 0, 1}}

StlFiles ==
    { f \in [head : {"solid", "SOLID", "other"},
             has_facet : BOOLEAN,
             facet_pos : {6, FirstKilobyte - 5, FirstKilobyte - 4},
             length : StlLengths,
             num_triangles : 0..MaxStlTris,
             facet_blocks : 0..MaxStlTris,
             stray_vertices : 0..1] :
        /\ f.head # "other" => f.length >= 5
        /\ f.has_facet => f.facet_pos + 5 <= f.length
        /\ ~f.has_facet => f.facet_pos = 6
        /\ f.length < HeaderLen => f.num_triangles = 0
        /\ f.facet_blocks + f.stray_vertices > 0 => f.length >= HeaderLen }

InitStl ==
    /\ pc = "stl_start"
    /\ stl_file \in StlFiles
    /\ loaded = NoLoad
    /\ dcm_data = <<>> /\ stl_data = <<>> /\ xor_key = <<>>
    /\ IdleKPA
    /\ IdleDec
    /\ IdleSeg
    /\ IdleBatch
    /\ IdleCanon
    /\ IdleParse
    /\ IdleSdx
    /\ IdleMore

LoadStlVerticesRaw ==
    /\ pc = "stl_start"
    /\ loaded' = load_stl_vertices_by_format(stl_file)
    /\ pc' = "stl_returned"
    /\ UNCHANGED <<coreVars, stl_file, sdxVars, moreVars>>

LoadStlFaces ==
    /\ pc = "stl_start"
    /\ loaded' = load_stl_faces(stl_file)
    /\ pc' = "stl_returned"
    /\ UNCHANGED <<coreVars, stl_file, sdxVars, moreVars>>

LoadStl ==
    /\ pc = "stl_start"
    /\ loaded' = load_stl(stl_file)
    /\ pc' = "stl_returned"
    /\ UNCHANGED <<coreVars, stl_file, sdxVars, moreVars>>

NextStl ==
    \/ LoadStlVerticesRaw
    \/ LoadStlFaces
    \/ LoadStl

SpecStl == InitStl /\ [][NextStl]_vars

(***************************************************************************)
(* sdx_interface.py: SDXInterface.  attach, detach and convert_file are     *)
(* called one at a time on one interface object; the service answers        *)
(* Execute with any code and sets its Finished flag at any later moment.    *)
(* conv records the call in progress or last returned: the service calls    *)
(* it made, whether _sdx was set when it began, what Execute answered,      *)
(* the last value read from Finished and the error it raised.               *)
(***************************************************************************)
\* The codes _handle_error has a message for.
KnownCodes == {-1} \cup 1..14

\* What Execute may answer: running, some known codes and an unknown one.
ExecStates == {0, -1, 1, 7, 14, 15}

Call(op, attached) ==
    [op |-> op, outcome |-> "running", was_attached |-> attached,
     calls |-> <<>>, state |-> 0, polls |-> 0, last_read |-> FALSE,
     error |-> "none", code |-> 0, known |-> FALSE, input_file |-> "",
     progress |-> <<>>]

\* The files convert_file is called on.
SdxFiles == {"a.dcm", "b.dcm"}

\* if progress_callback: progress_callback(message)
Progress(call, callback, message) ==
    IF callback THEN [call EXCEPT !.progress = Append(@, message)] ELSE call

\* while not self._sdx.Finished, with a variant that leaves the loop on
\* the first reading whatever it is.
LoopExitsAlways(finished) == TRUE

LoopExits(finished) == finished

\* _handle_error: the message names the code and is a known one or not.
handle_error(call, state) ==
    [call EXCEPT !.outcome = "raised", !.error = "com_error",
                 !.code = state, !.known = state \in KnownCodes]

\* SDXInterface.is_attached
is_attached == sdx_obj # "None"

InitSdx ==
    /\ pc = "sdx_ready"
    /\ sdx_obj = "None"
    /\ service \in [attached : {FALSE}, finished : BOOLEAN, input_file : {""}]
    /\ args \in [progress_callback : BOOLEAN]
    /\ conv = NoCall
    /\ dcm_data = <<>> /\ stl_data = <<>> /\ xor_key = <<>>
    /\ IdleKPA
    /\ facet_data = <<>> /\ facet_count = 0
    /\ vertices = <<>> /\ faces = <<>> /\ written = {}
    /\ IdleSeg
    /\ IdleBatch
    /\ IdleCanon
    /\ IdleParse
    /\ IdleStl
    /\ IdleMore

\* attach: Dispatch or Attach may raise; _sdx is assigned between the two.
SdxAttach ==
    /\ pc = "sdx_ready"
    /\ \E o \in {"ok", "dispatch_fails", "attach_fails"} :
          LET c == Call("attach", sdx_obj # "None")
          IN  CASE o = "ok" ->
                     /\ sdx_obj' = "Dispatch"
                     /\ service' = [service EXCEPT !.attached = TRUE]
                     /\ conv' = [c EXCEPT !.outcome = "returned",
                                          !.calls = <<"Dispatch", "Attach">>]
                [] o = "dispatch_fails" ->
                     /\ conv' = [c EXCEPT !.outcome = "raised",
                                          !.error = "attach_failed",
                                          !.calls = <<"Dispatch">>]
                     /\ UNCHANGED <<sdx_obj, service>>
                [] o = "attach_fails" ->
                     /\ sdx_obj' = "Dispatch"
                     /\ conv' = [c EXCEPT !.outcome = "raised",
                                          !.error = "attach_failed",
                                          !.calls = <<"Dispatch", "Attach">>]
                     /\ UNCHANGED service
    /\ UNCHANGED <<pc, coreVars, stlVars, moreVars>>

\* detach: an error of Detach is ignored; _sdx is cleared in any case.
SdxDetach ==
    /\ pc = "sdx_ready"
    /\ IF sdx_obj # "None"
       THEN /\ \E detached \in BOOLEAN :
                  service' = [service EXCEPT
                                 !.attached = IF detached THEN FALSE ELSE @]
            /\ sdx_obj' = "None"
            /\ conv' = [Call("detach", TRUE) EXCEPT !.outcome = "returned",
                                                    !.calls = <<"Detach">>]
       ELSE /\ conv' = [Call("detach", FALSE) EXCEPT !.outcome = "returned"]
            /\ UNCHANGED <<sdx_obj, service>>
    /\ UNCHANGED <<pc, coreVars, stlVars, moreVars>>

\* convert_file up to the answer of Execute.
SdxConvertFile ==
    /\ pc = "sdx_ready"
    /\ IF sdx_obj = "None"
       THEN /\ conv' = [Call("convert_file", FALSE) EXCEPT
                           !.outcome = "raised", !.error = "not_attached"]
            /\ UNCHANGED <<pc, service>>
       ELSE \E state \in ExecStates, f \in BOOLEAN, file \in SdxFiles :
               LET c == [Call("convert_file", TRUE) EXCEPT
                            !.calls = <<"SetOption", "SetOption", "SetOption",
                                        "SetOption", "Execute">>,
                            !.state = state, !.input_file = file]
               IN  IF state = 0
                   THEN /\ conv' = c
                        /\ service' = [service EXCEPT !.finished = f,
                                                      !.input_file = file]
                        /\ pc' = "sdx_polling"
                   ELSE /\ conv' = handle_error(c, state)
                        /\ service' = [service EXCEPT !.input_file = file]
                        /\ UNCHANGED pc
    /\ UNCHANGED <<sdx_obj, coreVars, stlVars, moreVars>>

\* The service completes the conversion.
SdxServiceFinish ==
    /\ pc = "sdx_polling"
    /\ ~service.finished
    /\ service' = [service EXCEPT !.finished = TRUE]
    /\ UNCHANGED <<pc, sdx_obj, conv, coreVars, stlVars, moreVars>>

\* One reading of Finished by the polling loop, followed by a return or by
\* time.sleep(1).
SdxPoll ==
    /\ pc = "sdx_polling"
    /\ conv.polls < MaxPolls
    /\ LET c == [conv EXCEPT !.calls = Append(@, "Finished"),
                             !.polls = @ + 1,
                             !.last_read = service.finished]
       IN  IF LoopExits(service.finished)
           THEN /\ conv' = [Progress(c, args.progress_callback, "Converted")
                               EXCEPT !.outcome = "returned"]
                /\ pc' = "sdx_ready"
           ELSE /\ conv' = Progress(c, args.progress_callback, "converting...")
                /\ UNCHANGED pc
    /\ UNCHANGED <<sdx_obj, service, coreVars, stlVars, moreVars>>

NextSdx ==
    \/ SdxAttach
    \/ SdxDetach
    \/ SdxConvertFile
    \/ SdxServiceFinish
    \/ SdxPoll

SpecSdx == InitSdx /\ [][NextSdx]_vars

(***************************************************************************)
(* The directory converter: dcm_to_stl/core/converter.py.                   *)
(*                                                                          *)
(* conversion_list is the list discover_files returns; a file is named by   *)
(* its position in the list and carries what convert_file will do with it:  *)
(* "ok" (the conversion completes), "missing" (os.path.isfile fails, a      *)
(* ValueError) or "sdx_error" (the interface raises SDXError).  sdx_obj is  *)
(* the _sdx field of the interface the caller supplies, temp_obj the one of *)
(* the temporary interface of the with statement.  The progress callback is *)
(* taken not to raise, and every conversion to end.                         *)
(***************************************************************************)
FileKinds == {"ok", "missing", "sdx_error"}

DiscoveredLists == UNION {[1..n -> FileKinds] : n \in 0..MaxFiles}

ConvArgs == [directory_exists : BOOLEAN, supplied : BOOLEAN]

\* convert_file raises ValueError for a missing file and lets the SDXError
\* of the interface through.
\* A convert_file that swallows its errors.
convert_file_never_raises(kind) == FALSE

convert_file_raises(kind) == kind # "ok"

Report(c, msg, file, count) ==
    [c EXCEPT !.progress = Append(@, [msg |-> msg, file |-> file,
                                      count |-> count])]

\* One turn of "for input_file in conversion_list" with its try/except.
ConvertOne(c, file, kind) ==
    LET a == [c EXCEPT !.i = file, !.attempts = Append(@, file)]
    IN  IF convert_file_raises(kind)
        THEN Report(a, "Error converting", file, a.converted_count)
        ELSE Report([a EXCEPT !.converted_count = @ + 1],
                    "Converted", file, a.converted_count + 1)

InitConv ==
    /\ pc = "cd_start"
    /\ conversion_list \in DiscoveredLists
    /\ args \in ConvArgs
    /\ sdx_obj \in {"None", "Dispatch"}
    /\ args.supplied = FALSE => sdx_obj = "None"
    /\ temp_obj = "None"
    /\ cd = NoRun
    /\ service = [attached |-> FALSE, finished |-> FALSE, input_file |-> ""]
    /\ conv = NoCall
    /\ dcm_data = <<>> /\ stl_data = <<>> /\ xor_key = <<>>
    /\ IdleKPA
    /\ facet_data = <<>> /\ facet_count = 0
    /\ vertices = <<>> /\ faces = <<>> /\ written = {}
    /\ IdleSeg
    /\ IdleBatch
    /\ IdleCanon
    /\ IdleParse
    /\ IdleStl
    /\ IdleGui

\* convert_directory up to the first turn of a loop: discovery, the early
\* return, the choice of the interface and the attach of the temporary one.
CdDiscover ==
    /\ pc = "cd_start"
    /\ LET c0 == Report(cd, "Discovering DCM files...", 0, 0)
       IN  CASE ~args.directory_exists ->
                  /\ cd' = [c0 EXCEPT !.outcome = "raised",
                                      !.error = "ValueError"]
                  /\ pc' = "cd_done"
                  /\ UNCHANGED temp_obj
             [] args.directory_exists /\ conversion_list = <<>> ->
                  /\ cd' = [Report(c0, "No DCM files found", 0, 0) EXCEPT
                               !.outcome = "returned", !.result = 0]
                  /\ pc' = "cd_done"
                  /\ UNCHANGED temp_obj
             [] args.directory_exists /\ conversion_list # <<>>
                  /\ args.supplied /\ sdx_obj # "None" ->
                  /\ cd' = [Report(c0, "Found", 0, Len(conversion_list))
                               EXCEPT !.path = "supplied"]
                  /\ pc' = "cd_loop"
                  /\ UNCHANGED temp_obj
             [] OTHER ->
                  \E o \in {"ok", "dispatch_fails", "attach_fails"} :
                     LET c1 == [Report(c0, "Found", 0, Len(conversion_list))
                                   EXCEPT !.path = "temporary"]
                     IN  IF o = "ok"
                         THEN /\ temp_obj' = "Dispatch"
                              /\ cd' = Report(c1, "Connected to SDX", 0, 0)
                              /\ pc' = "cd_loop"
                         ELSE /\ temp_obj' = IF o = "attach_fails"
                                             THEN "Dispatch" ELSE "None"
                              /\ cd' = [c1 EXCEPT !.outcome = "raised",
                                                  !.error = "SDXError"]
                              /\ pc' = "cd_done"
    /\ UNCHANGED <<conversion_list, sdx_obj, service, conv, coreVars, stlVars, guiVars>>

\* One file of either loop.
CdConvertFile ==
    /\ pc = "cd_loop"
    /\ cd.i < Len(conversion_list)
    /\ cd' = ConvertOne(cd, cd.i + 1, conversion_list[cd.i + 1])
    /\ UNCHANGED <<pc, conversion_list, temp_obj, sdx_obj, service, conv,
                   coreVars, stlVars, guiVars>>

\* A variant of __exit__ that leaves the object in place.
exit_keeps(obj) == obj

\* SDXInterface.__exit__: detach, after which _sdx is None whether Detach
\* raised or not.
exit(obj) == "None"

\* The end of the loop: __exit__ detaches the temporary interface, the
\* supplied one is left alone; the count is returned.
CdReturn ==
    /\ pc = "cd_loop"
    /\ cd.i = Len(conversion_list)
    /\ temp_obj' = IF cd.path = "temporary" THEN exit(temp_obj) ELSE temp_obj
    /\ cd' = [Report(cd, "Conversion complete", 0, cd.converted_count) EXCEPT
                 !.outcome = "returned", !.result = cd.converted_count]
    /\ pc' = "cd_done"
    /\ UNCHANGED <<conversion_list, sdx_obj, service, conv, coreVars, stlVars, guiVars>>

NextConv ==
    \/ CdDiscover
    \/ CdConvertFile
    \/ CdReturn

SpecConv == InitConv /\ [][NextConv]_vars

(***************************************************************************)
(* A whole batch run: main of batch_pair_analyzer.py without --analyze,     *)
(* from its arguments to the report.  pairs is what the mapping file or the *)
(* directory yields (rows of two columns, containers with a reference);     *)
(* the database may be damaged between json.dump and json.load.  The        *)
(* mapping file, the keys directory and the output file are taken to be     *)
(* readable and writable.                                                   *)
(***************************************************************************)
Sources == {"mapping", "path", "none"}

Limits == (0 - 1)..MaxPairs

RunArgs ==
    { [save_keys |-> s, keys_dir |-> "extracted_keys",
       has_limit |-> l # 0, limit |-> l, source |-> src] :
        s \in BOOLEAN, l \in Limits, src \in Sources }

\* pairs[:limit]: a negative limit counts from the end.
SliceTo(list, limit) ==
    IF limit >= 0
    THEN Prefix(list, limit)
    ELSE IF Len(list) + limit > 0
         THEN Prefix(list, Len(list) + limit)
         ELSE <<>>

InitRun ==
    /\ pc = "run_main"
    /\ pairs \in WorkLists
    /\ args \in RunArgs
    /\ idx = 0
    /\ records = <<>>
    /\ db = <<>>
    /\ key_files = {}
    /\ report = NoReport
    /\ dcm_data = <<>> /\ stl_data = <<>> /\ xor_key = <<>>
    /\ IdleKPA
    /\ facet_data = <<>> /\ facet_count = 0
    /\ vertices = <<>> /\ faces = <<>> /\ written = {}
    /\ IdleSeg
    /\ IdleCanon
    /\ IdleParse
    /\ IdleExt

\* main up to the call of process_pairs: with neither a mapping nor a path,
\* and with no pair found, sys.exit(1); "if args.limit" then truncates.
RunMain ==
    /\ pc = "run_main"
    /\ LET found == IF args.source = "none" THEN <<>> ELSE pairs
       IN  IF found = <<>>
           THEN pc' = "bat_exit" /\ pairs' = <<>>
           ELSE /\ pc' = "bat_loop"
                /\ pairs' = IF args.limit # 0
                            THEN SliceTo(found, args.limit) ELSE found
    /\ UNCHANGED <<dcm_data, stl_data, xor_key, kpaVars, decVars, segments,
                   canonVars, parseVars, extVars,
                   idx, records, db, key_files, report>>

\* main's analyze_database(args.output): json.load raises on a database
\* that is no longer a JSON list of records, and nothing catches it.
RunAnalyzeDatabase ==
    /\ pc = "bat_saved"
    /\ \E reloadable \in BOOLEAN :
          IF reloadable
          THEN report' = analyze_database(db) /\ pc' = "bat_done"
          ELSE pc' = "bat_reload_failed" /\ UNCHANGED report
    /\ UNCHANGED <<dcm_data, stl_data, xor_key, kpaVars, decVars, segments,
                   canonVars, parseVars, extVars,
                   pairs, idx, records, db, key_files>>

NextRun ==
    \/ RunMain
    \/ BatProcessPair
    \/ BatSaveResults
    \/ RunAnalyzeDatabase

SpecRun == InitRun /\ [][NextRun]_vars

(***************************************************************************)
(* The SDX status indicator of the GUI (gui/app.py).  The main thread runs *)
(* the Tk event loop: clicks, the scheduled startup attach and the colour   *)
(* updates posted with after(0).  Every _attach_sdx runs in a thread of its *)
(* own: it posts yellow, calls attach (Dispatch, then Attach) and posts     *)
(* green or red.  self.sdx is the interface of sdx_obj and service.         *)
(***************************************************************************)

\* _update_sdx_status: the change of _current_color is deferred to the
\* event loop with after(0, update).
update_sdx_status(queue, color) == Append(queue, color)

\* The _attach_sdx threads that have not returned yet.
InFlight == {t \in 1..Len(threads) : threads[t] # "th_done"}

\* threading.Thread(target=self._attach_sdx).start()
StartThread == threads' = Append(threads, "th_start")

\* App.__init__: the indicator is red, after(100, _attach_sdx_background)
\* is pending, the interface is not attached.
InitGui ==
    /\ pc = "gui_mainloop"
    /\ current_color = "red"
    /\ after_queue = <<>>
    /\ scheduled = TRUE
    /\ threads = <<>>
    /\ clicks = 0
    /\ IdleSdx
    /\ dcm_data = <<>> /\ stl_data = <<>> /\ xor_key = <<>>
    /\ IdleKPA
    /\ IdleDec
    /\ IdleSeg
    /\ IdleBatch
    /\ IdleCanon
    /\ IdleParse
    /\ IdleStl
    /\ IdleConv

\* _attach_sdx_background, run by the event loop when the timer is due.
GuiStartup ==
    /\ pc = "gui_mainloop"
    /\ scheduled
    /\ scheduled' = FALSE
    /\ StartThread
    /\ UNCHANGED <<pc, current_color, after_queue, clicks, sdxVars, convVars,
                   coreVars, stlVars>>

\* _on_status_click: a reconnect thread is started when the stored colour
\* is red and the interface holds no object.
GuiClick ==
    /\ pc = "gui_mainloop"
    /\ clicks < MaxClicks
    /\ clicks' = clicks + 1
    /\ IF current_color = "red" /\ ~is_attached
       THEN StartThread
       ELSE UNCHANGED threads
    /\ UNCHANGED <<pc, current_color, after_queue, scheduled, sdxVars,
                   convVars, coreVars, stlVars>>

\* The update closure of _update_sdx_status, run by the event loop.
GuiUpdate ==
    /\ pc = "gui_mainloop"
    /\ after_queue # <<>>
    /\ current_color' = Head(after_queue)
    /\ after_queue' = Tail(after_queue)
    /\ UNCHANGED <<pc, scheduled, threads, clicks, sdxVars, convVars,
                   coreVars, stlVars>>

\* _attach_sdx, first step: self._update_sdx_status("yellow").
ThreadYellow(t) ==
    /\ threads[t] = "th_start"
    /\ after_queue' = update_sdx_status(after_queue, "yellow")
    /\ threads' = [threads EXCEPT ![t] = "th_attach"]
    /\ UNCHANGED <<pc, current_color, scheduled, clicks, sdxVars, convVars,
                   coreVars, stlVars>>

\* attach, first half: self._sdx = win32.Dispatch(...); a failure is
\* reported as red and ends the thread.
ThreadDispatch(t) ==
    /\ threads[t] = "th_attach"
    /\ \E ok \in BOOLEAN :
          IF ok
          THEN /\ sdx_obj' = "Dispatch"
               /\ threads' = [threads EXCEPT ![t] = "th_Attach"]
               /\ UNCHANGED after_queue
          ELSE /\ after_queue' = update_sdx_status(after_queue, "red")
               /\ threads' = [threads EXCEPT ![t] = "th_done"]
               /\ UNCHANGED sdx_obj
    /\ UNCHANGED <<pc, current_color, scheduled, clicks, service, conv,
                   convVars, coreVars, stlVars>>

\* attach, second half: self._sdx.Attach(), then green, or red when it
\* raised; the thread ends.
ThreadAttach(t) ==
    /\ threads[t] = "th_Attach"
    /\ \E ok \in BOOLEAN :
          IF ok
          THEN /\ service' = [service EXCEPT !.attached = TRUE]
               /\ after_queue' = update_sdx_status(after_queue, "green")
          ELSE /\ after_queue' = update_sdx_status(after_queue, "red")
               /\ UNCHANGED service
    /\ threads' = [threads EXCEPT ![t] = "th_done"]
    /\ UNCHANGED <<pc, current_color, scheduled, clicks, sdx_obj, conv,
                   convVars, coreVars, stlVars>>

NextGui ==
    \/ GuiStartup
    \/ GuiClick
    \/ GuiUpdate
    \/ \E t \in 1..Len(threads) : ThreadYellow(t)
    \/ \E t \in 1..Len(threads) : ThreadDispatch(t)
    \/ \E t \in 1..Len(threads) : ThreadAttach(t)

SpecGui == InitGui /\ [][NextGui]_vars

(***************************************************************************)
(* Properties of the known-plaintext attack.                                *)
(***************************************************************************)

\* The periods k in 1..min(256, len/2) that hold for the whole sequence.
ValidPeriods(X) ==
    {k \in 1..Min(MaxPeriod, Len(X) \div 2) :
        \A i \in 1..Len(X) : X[i] = X[((i - 1) % k) + 1]}

\* C1: the attack reports success only when decrypting the whole payload P
\* with the reported key reproduces the reference R at every byte position.
C1_SuccessOnlyOnFullReplay ==
    (pc = "kpa_done" /\ results.success) =>
        /\ results.key # <<>>
        /\ DecryptRepeating(dcm_data, FromHex(results.key)) = stl_data

\* A long payload whose key is reported as confirmed.
C1_Witness ==
    /\ pc = "kpa_done"
    /\ results.success
    /\ Len(dcm_data) > 1000
    /\ Len(FromHex(results.key)) = PatternKeep

\* C3: find_repeating_pattern returns at most one period; a returned period
\* is the smallest k in 1..min(256, len/2) with X[i] = X[i mod k] at every
\* position of the whole sequence, with the first k bytes as its pattern; it
\* returns nothing exactly when no such k exists.
C3_ShortestWholePeriod ==
    (pc \in {"kpa_analyzed", "kpa_done"}) =>
        LET found == key_analysis.repeating
            valid == ValidPeriods(xor_key)
        IN  /\ Cardinality(found) <= 1
            /\ (found = {}) <=> (valid = {})
            /\ \A e \in found :
                  /\ e[1] \in valid
                  /\ \A j \in valid : e[1] <= j
                  /\ e[2] = SubSeq(xor_key, 1, e[1])

\* A key built from an 8-byte pattern, for which 16 is a valid period too, is
\* detected with period 8.
C3_Witness ==
    /\ pc = "kpa_analyzed"
    /\ {e[1] : e \in key_analysis.repeating} = {8}
    /\ 16 \in ValidPeriods(xor_key)

(***************************************************************************)
(* Properties of the decoder.                                               *)
(***************************************************************************)

\* C2: for equal-length payloads P and R with K = derive_xor_key(P, R),
\* XOR-ing P with K yields R and XOR-ing R with K yields P at every byte
\* position, and decrypt_vertices yields len(P) / 12 (rounded down) vertices,
\* the 12-byte blocks of R.
C2_XorSelfInverse ==
    (args.mode = "stl" /\ pc \in {"dec_keyed", "dec_decoded", "dec_done"}) =>
        /\ Len(xor_key) = Len(dcm_data)
        /\ \A i \in 1..Len(dcm_data) :
              /\ BitXor(dcm_data[i], xor_key[i]) = stl_data[i]
              /\ BitXor(stl_data[i], xor_key[i]) = dcm_data[i]
        /\ (pc # "dec_keyed") =>
              /\ Len(vertices) = Len(dcm_data) \div 12
              /\ PackVertices(vertices) = Prefix(stl_data, 12 * Len(vertices))

\* Two different 36-byte payloads decrypted into three vertices.
C2_Witness ==
    /\ args.mode = "stl"
    /\ pc = "dec_decoded"
    /\ dcm_data # stl_data
    /\ Len(dcm_data) = 36
    /\ Len(vertices) = 3

\* C6: whenever the payloads P and R differ in length, both are cut to the
\* shared minimum length before the key is derived: the mismatch never makes
\* the key derivation fail, and the key is the XOR of the two cut payloads.
C6_MismatchTruncatesNeverFails ==
    (args.mode = "stl" /\ Len(dcm_data) # Len(stl_data) /\ pc # "dec_loaded") =>
        /\ pc # "dec_raised"
        /\ xor_key = XorBytes(Prefix(dcm_data, Len(stl_data)),
                              Prefix(stl_data, Len(dcm_data)))

(***************************************************************************)
(* Properties of the facet segmentation and decoding.                       *)
(***************************************************************************)

\* The segments concatenated with the marker between consecutive segments.
RECURSIVE Join(_, _)
Join(segs, marker) ==
    IF segs = <<>> THEN <<>>
    ELSE IF Len(segs) = 1 THEN segs[1]
    ELSE segs[1] \o <<marker>> \o Join(Tail(segs), marker)

SegDone ==
    pc \in {"seg_try_done", "seg_attempt_done", "seg_structure_done",
            "seg_patterns_done"}

\* Neither a leading, nor a trailing, nor two consecutive delimiters.
NoEmptySegment(data) ==
    /\ (data # <<>>) => (data[1] # Delimiter /\ data[Len(data)] # Delimiter)
    /\ \A i \in 1..(Len(data) - 1) :
          ~(data[i] = Delimiter /\ data[i + 1] = Delimiter)

C5_OneRecordPerPair ==
    /\ pc # "bat_raised"
    /\ pc \in {"bat_loop", "bat_saved", "bat_done"} =>
          /\ Len(records) = idx
          /\ \A i \in 1..Len(records) :
                /\ records[i].dcm_path = pairs[i].dcm_path
                /\ records[i].stl_path = pairs[i].stl_path
    /\ pc \in {"bat_saved", "bat_done"} =>
          /\ db = records
          /\ Len(db) = Len(pairs)

\* A batch with key saving whose first pair failed and whose second pair
\* succeeded has been persisted.
C5_Witness ==
    /\ pc = "bat_saved"
    /\ args.save_keys
    /\ Len(db) = 2
    /\ db[1].error # ""
    /\ db[2].error = ""
    /\ key_files # {}

\* The key the two files of a pair give.
DerivedKey(p) ==
    XorBytes(load_dcm_data(p.dcm).vertex_data,
             load_stl_vertices_raw(p.stl).data)

\* Records i and j were analysed without error, share a signature and
\* have different keys.
SameSigDifferentKey(i, j) ==
    /\ db[i].error = ""
    /\ db[j].error = ""
    /\ db[i].signature_hash = db[j].signature_hash
    /\ DerivedKey(pairs[i]) # DerivedKey(pairs[j])

\* C7: when two successfully analysed records share a signature and have
\* different keys, analyze_database flags that signature and does not
\* print its "key is derived from signature hash" conclusion; it prints
\* the conclusion only when no signature has two different keys.
C7_DifferentKeysFlagged ==
    pc = "bat_done" =>
        /\ \A i, j \in 1..Len(db) :
              SameSigDifferentKey(i, j) =>
                  /\ db[i].signature_hash \in report.flagged
                  /\ ~report.conclusion
        /\ report.conclusion =>
              \A i, j \in 1..Len(db) : ~SameSigDifferentKey(i, j)

\* A database with one signature and two keys has been analysed.
C7_Witness ==
    /\ pc = "bat_done"
    /\ \E i, j \in 1..Len(db) : SameSigDifferentKey(i, j)
    /\ report.flagged = {SigA}


(***************************************************************************)
(* Properties of the vertex canonicaliser.                                  *)
(***************************************************************************)
\* The rounded key of corner q of the stream, corners counted from 1
\* through the triangles.
CornerKey(q) == VertexKey(triangles[((q - 1) \div 3) + 1][((q - 1) % 3) + 1])

\* The corners that no earlier corner equals after rounding.
FirstOccurrences ==
    {q \in 1..(3 * Len(triangles)) :
        \A e \in 1..(q - 1) : ~KeyEq(CornerKey(e), CornerKey(q))}

\* C8: the loader returns one face per triangle, in order; its vertex list
\* holds the rounded triple of every first occurrence, in stream order and
\* nothing else, so no two of its entries are equal; every face index is
\* in range and names the vertex that carries the corner's rounded
\* coordinates.
C8_FirstOccurrenceOrder ==
    pc = "canon_done" =>
        /\ Len(faces) = Len(triangles)
        /\ Len(vertices) = Cardinality(FirstOccurrences)
        /\ \A q \in FirstOccurrences :
              vertices[Cardinality({e \in FirstOccurrences : e <= q})]
                  = CornerKey(q)
        /\ \A i, j \in 1..Len(vertices) :
              i # j => ~KeyEq(vertices[i], vertices[j])
        /\ \A t \in 1..Len(faces) :
              /\ Len(faces[t]) = 3
              /\ \A n \in 1..3 :
                    /\ faces[t][n] \in 0..(Len(vertices) - 1)
                    /\ vertices[faces[t][n] + 1] = VertexKey(triangles[t][n])

\* Two facets sharing the edge B-C have given four vertices, in the order
\* the stream met them and not sorted, and two faces whose shared corners
\* carry the same indices.
C8_Witness ==
    /\ pc = "canon_done"
    /\ triangles = << <<PtB, PtA, PtC>>, <<PtC, PtB, PtD>> >>
    /\ vertices = <<PtB, PtA, PtC, PtD>>
    /\ faces = << <<0, 1, 2>>, <<2, 0, 3>> >>


\* The triangle stream of a mesh: every face index replaced by the vertex
\* it names.
Expand(vs, fs) ==
    [t \in 1..Len(fs) |-> [n \in 1..3 |-> vs[fs[t][n] + 1]]]

\* C19: canonicalisation is idempotent: the mesh a loader returned,
\* expanded into its triangle stream and canonicalised again, comes back
\* with the same vertices in the same order and the same face triples.
C19_CanonicalisationIdempotent ==
    pc = "canon_done" =>
        LET again == Canonicalise(Expand(vertices, faces))
        IN  /\ again.vertices = vertices
            /\ again.faces = faces

\* A stream whose corners were moved by the rounding and merged: the
\* expanded stream is not the stream that was read, and canonicalising it
\* returns the same mesh.
C19_Witness ==
    /\ pc = "canon_done"
    /\ triangles = << <<NearA, NearB, PtC>>, <<PtC, PtB, PtD>> >>
    /\ vertices = <<PtA, PtB, PtC, PtD>>
    /\ faces = << <<0, 1, 2>>, <<2, 1, 3>> >>
    /\ Expand(vertices, faces) # triangles
    /\ Canonicalise(Expand(vertices, faces)).faces = faces


(***************************************************************************)
(* Properties of the container parsers.                                     *)
(***************************************************************************)
\* The element is present, its text decodes, and its base64_encoded_bytes
\* attribute is not the length of the decoded payload.
DeclaredLengthDiffers(present, text, declared) ==
    /\ present
    /\ text # <<>>
    /\ ~B64Raises(text)
    /\ declared # Len(B64Bytes(text))

PayloadLengthMismatch(c) ==
    /\ c.well_formed
    /\ \/ DeclaredLengthDiffers(c.has_facets, c.facets_text,
                                c.facets_declared)
       \/ DeclaredLengthDiffers(c.has_vertices, c.vertices_text,
                                c.vertices_declared)

\* C10: a container whose Facets or Vertices element declares a byte count
\* other than the length of its decoded payload is a parse error: neither
\* parser returns a record for it.
C10_LengthMismatchIsParseError ==
    (pc = "parse_returned" /\ PayloadLengthMismatch(container))
        => parsed.raised


\* A required element of the container is absent.
MissingElement(c) ==
    c.well_formed /\ (~c.has_ce \/ ~c.has_facets \/ ~c.has_vertices)

\* C11: loading a container without its CE, Facets or Vertices element
\* fails: no loader returns a record for it, so no record carries an empty
\* payload in place of the missing element.
C11_MissingElementIsError ==
    (pc = "parse_returned" /\ MissingElement(container)) => parsed.raised


(***************************************************************************)
(* Properties of the STL loaders.                                           *)
(***************************************************************************)
\* The file has the ASCII shape: it starts with 'solid', holds 'facet' in
\* its first kilobyte and at least one facet block, all of them well formed.
AsciiShape(f) ==
    /\ StartsSolid(f)
    /\ FacetInFirstKilobyte(f)
    /\ f.facet_blocks >= 1
    /\ f.stray_vertices = 0

\* The file has the binary layout: the header and 50 bytes per declared
\* triangle.
BinaryLayout(f) ==
    /\ f.length >= HeaderLen
    /\ f.length >= HeaderLen + TriangleLen * f.num_triangles

\* C12: a reference file that has neither the ASCII shape nor the binary
\* layout fails to load: no loader returns a mesh or a vertex payload.
C12_UnsupportedVariantFails ==
    (pc = "stl_returned" /\ ~AsciiShape(stl_file) /\ ~BinaryLayout(stl_file))
        => loaded.raised


\* C13: aggregation is a barrier: analyze_database starts only when every
\* pair of the work list has its record and the whole list is persisted,
\* and it reports on as many records as the work list has pairs.
C13_AggregationAfterWholeBatch ==
    [][pc' = "bat_done" =>
          /\ pc = "bat_saved"
          /\ idx = Len(pairs)
          /\ db = records
          /\ Len(db) = Len(pairs)
          /\ report'.total = Len(pairs)]_vars

\* The aggregation has run over a batch of two pairs, one of them errored.
C13_Witness ==
    /\ pc = "bat_done"
    /\ Len(pairs) = 2
    /\ report.total = 2
    /\ report.errors = 1


\* The list holds the records of the first k pairs of the work list.
HoldsFirst(list, k) ==
    /\ Len(list) >= k
    /\ \A i \in 1..k : list[i].dcm_path = pairs[i].dcm_path

\* C14: when a run is interrupted after k pairs, the records of those k
\* pairs are not lost: they are in the database or still to hand.
C14_CompletedRecordsSurvive ==
    pc = "bat_interrupted" => (HoldsFirst(db, idx) \/ HoldsFirst(records, idx))


(***************************************************************************)
(* Properties of the attack's hypotheses.                                   *)
(***************************************************************************)
\* The hypotheses the result dict marks as positive.
PositiveHypotheses ==
    {h \in {"repeating_xor", "full_xor", "substitution", "vertex_key"} :
        \/ h = "repeating_xor" /\ results.success
        \/ h = "full_xor" /\ results.full_key_works
        \/ h = "substitution" /\ results.is_substitution_cipher
        \/ h = "vertex_key" /\ results.vertex_analysis.same_key_per_vertex}

\* C15: the results of one attack never mark more than one hypothesis as
\* positive.
C15_AtMostOneHypothesis ==
    pc = "kpa_done" => Cardinality(PositiveHypotheses) <= 1


\* The XOR keys of all the whole 12-byte blocks of the payload.
AllBlockKeys ==
    {XorBytes(VertexBlock(dcm_data, i), VertexBlock(stl_data, i)) :
        i \in 0..((Len(dcm_data) \div VertexLen) - 1)}

\* C20: same_key_per_vertex is reported only for a payload whose length is
\* a multiple of 12 and whose 12-byte blocks, all of them, give one key.
C20_SameKeyOnlyIfEveryBlock ==
    (pc = "kpa_done" /\ results.vertex_analysis.same_key_per_vertex) =>
        /\ Len(dcm_data) % VertexLen = 0
        /\ Cardinality(AllBlockKeys) = 1


(***************************************************************************)
(* Properties of the SDX interface.                                         *)
(***************************************************************************)
\* The service calls a call made.
CallsOf(c) == {c.calls[i] : i \in 1..Len(c.calls)}

FileOrder(n) == [k \in 1..n |-> k]

Completed(n) == Cardinality({k \in 1..n : conversion_list[k] = "ok"})

ErrorReports == SelectSeq(cd.progress, LAMBDA m : m.msg = "Error converting")

FailingFiles ==
    SelectSeq(FileOrder(Len(conversion_list)),
              LAMBDA k : conversion_list[k] # "ok")

\* The loop so far: files 1..i, each once and in discovery order, the count
\* of those that completed, one error report per failing file.
LoopFaithful ==
    /\ cd.attempts = FileOrder(cd.i)
    /\ cd.converted_count = Completed(cd.i)
    /\ Len(ErrorReports) = cd.i - Completed(cd.i)

\* C17 as stated: a call of convert_directory on an existing directory ends
\* by returning, having attempted every discovered file exactly once in
\* discovery order, the number of completed conversions as its result and
\* every failing file reported through the progress callback.
C17_EveryFileAttemptedOnce ==
    (pc = "cd_done" /\ args.directory_exists) =>
        /\ cd.outcome = "returned"
        /\ cd.attempts = FileOrder(Len(conversion_list))
        /\ cd.result = Completed(Len(conversion_list))
        /\ [k \in 1..Len(ErrorReports) |-> ErrorReports[k].file] = FailingFiles

\* C17, amended: once convert_directory has an interface to convert with (a
\* supplied attached one, or a temporary one whose attach succeeded), every
\* discovered file is attempted exactly once in discovery order whatever the
\* earlier files did, the result is the number of completed conversions and
\* the failing files are reported in order; a call that raises (the
\* directory does not exist, or the temporary interface cannot attach) has
\* attempted no file.
C17_EveryFileAttemptedOnceConnected ==
    /\ pc = "cd_loop" => LoopFaithful
    /\ cd.outcome = "returned" =>
          /\ cd.attempts = FileOrder(Len(conversion_list))
          /\ cd.result = Completed(Len(conversion_list))
          /\ [k \in 1..Len(ErrorReports) |-> ErrorReports[k].file]
                = FailingFiles
    /\ cd.outcome = "raised" =>
          /\ cd.attempts = <<>>
          /\ \/ ~args.directory_exists /\ cd.error = "ValueError"
             \/ cd.path = "temporary" /\ cd.error = "SDXError"

\* A run that returned after a failing file followed by a completed one.
C17_Witness ==
    /\ cd.outcome = "returned"
    /\ Len(conversion_list) = 3
    /\ conversion_list[1] = "missing"
    /\ conversion_list[2] = "sdx_error"
    /\ conversion_list[3] = "ok"
    /\ cd.result = 1
    /\ cd.attempts = <<1, 2, 3>>

(***************************************************************************)
(* Properties of a whole batch run.                                         *)
(***************************************************************************)
ErrorRecords(list) == Cardinality({k \in 1..Len(list) : list[k].error # ""})

BlocksOf(len, size) == 0..((len \div size) - 1)

\* Identical reference blocks always stand at positions of identical
\* container blocks.
PlainDeterminesCipher(size) ==
    \A i, j \in BlocksOf(Len(dcm_data), size) :
        Block(stl_data, i, size) = Block(stl_data, j, size)
            => Block(dcm_data, i, size) = Block(dcm_data, j, size)

\* C21: the block test reports exactly the sizes of 8, 16, 32, 64 that
\* divide the payload, and for each of them consistent exactly when
\* identical plaintext blocks always meet identical ciphertext blocks,
\* with the number of distinct blocks of the payload.
C21_BlockConsistency ==
    pc = "kpa_done" =>
        /\ DOMAIN block_analysis
              = {size \in BlockSizes : Len(dcm_data) % size = 0}
        /\ \A size \in DOMAIN block_analysis :
              /\ block_analysis[size].consistent
                    <=> PlainDeterminesCipher(size)
              /\ block_analysis[size].unique_blocks
                    = Cardinality({Block(dcm_data, i, size) :
                                      i \in BlocksOf(Len(dcm_data), size)})

\* The mapping P[i] -> R[i] is a function.
MappingIsFunction ==
    \A i, j \in 1..Len(dcm_data) :
        dcm_data[i] = dcm_data[j] => stl_data[i] = stl_data[j]

\* C22: the substitution test accepts exactly the payloads whose mapping
\* P[i] -> R[i] is a function, invertible or not, and returns the table of
\* that mapping; when it rejects it returns no table.
C22_SubstitutionIsFunction ==
    pc = "kpa_done" =>
        /\ sub_analysis.is_substitution <=> MappingIsFunction
        /\ sub_analysis.is_substitution =>
              /\ sub_analysis.has_table
              /\ sub_analysis.substitution_table
                    = {<<dcm_data[i], stl_data[i]>> : i \in 1..Len(dcm_data)}
        /\ ~sub_analysis.is_substitution =>
              /\ ~sub_analysis.has_table
              /\ sub_analysis.substitution_table = {}
              /\ sub_analysis.conflicts # {}

\* A many-to-one mapping was accepted: two container bytes, one reference
\* byte.
C22_Witness ==
    /\ pc = "kpa_done"
    /\ dcm_data = <<0, 1, 0>>
    /\ stl_data = <<255, 255, 255>>
    /\ sub_analysis.is_substitution
    /\ sub_analysis.table_size = 2

(***************************************************************************)
(* Properties of the format detection of the STL loaders.                   *)
(***************************************************************************)
\* The file reads 'solid' in its first five bytes, in either case, and the
\* token 'facet' lies wholly within its first 1000 bytes.
LooksAscii(f) ==
    /\ f.head # "other"
    /\ f.has_facet
    /\ f.facet_pos + 5 <= FirstKilobyte

TreatedAsAscii(l) == l.format = "ascii"

\* C23: a loader takes the ASCII path exactly for a file that reads
\* 'solid' and holds 'facet' in its first kilobyte, the binary path for
\* every other file, and the three loaders decide alike on the same file.
C23_SameFormatDecision ==
    pc = "stl_returned" =>
        /\ TreatedAsAscii(loaded) <=> LooksAscii(stl_file)
        /\ ~TreatedAsAscii(loaded) =>
              loaded = ParseBinary(loaded.loader, stl_file)
        /\ TreatedAsAscii(load_stl_vertices_by_format(stl_file))
              = TreatedAsAscii(load_stl_faces(stl_file))
        /\ TreatedAsAscii(load_stl_faces(stl_file))
              = TreatedAsAscii(load_stl(stl_file))

\* An upper-case SOLID file whose token ends on byte 1000 went the ASCII
\* way in the harness loader.
C23_Witness ==
    /\ pc = "stl_returned"
    /\ loaded.loader = "sdx_test_harness"
    /\ stl_file.head = "SOLID"
    /\ stl_file.has_facet
    /\ stl_file.facet_pos = FirstKilobyte - 5
    /\ loaded.format = "ascii"

(***************************************************************************)
(* Properties of the batch limit and of the key files.                      *)
(***************************************************************************)
\* C24: with a limit N >= 0 the work list is cut to its first min(N, n)
\* pairs, in order, when main hands it to process_pairs, before any pair
\* has been processed.
C24_LimitTruncatesFirst ==
    [][(pc = "bat_main" /\ pc' = "bat_loop" /\ args.has_limit) =>
          /\ pairs' = Prefix(pairs, args.limit)
          /\ records = <<>>
          /\ idx' = 0]_vars

(***************************************************************************)
(* Properties of the interface's attachment state.                          *)
(***************************************************************************)
\* C25: is_attached is true only when the most recent attach completed:
\* right after an attach that raised SDXError, at Dispatch or at Attach,
\* is_attached is false; and right after a detach it is false.
C25_AttachedOnlyAfterSuccess ==
    /\ (conv.op = "attach" /\ conv.outcome = "raised") => ~is_attached
    /\ (conv.op = "detach" /\ conv.outcome = "returned") => ~is_attached

(***************************************************************************)
(* Properties of the validation with a repeating pattern.                   *)
(***************************************************************************)
\* C26: when the key has a detected period k, the validation decrypts with
\* the whole k-byte pattern: every byte matches, success is reported, and
\* the pattern used and reported as the key is k bytes long.
C26_WholePatternValidates ==
    (pc = "kpa_done" /\ results.has_repeating_pattern) =>
        /\ Len(key_analysis.repeating_pattern)
              = key_analysis.repeating_pattern_length
        /\ results.match_count = Len(stl_data)
        /\ results.success
        /\ Len(results.key) = 2 * key_analysis.repeating_pattern_length

\* The records that take part in the aggregation.
Aggregated == {i \in 1..Len(db) : db[i].error = ""}

\* C27: analyze_database aggregates exactly the records whose error field
\* is empty: the success count is their number, success and error counts
\* add up to the number of records, and the key count and the flagged
\* signatures are those of these records alone; a truncated pair, which
\* has a key and an error, is counted as an error and left out.
C27_AggregatesErrorFreeRecords ==
    pc = "bat_done" =>
        /\ report.successful = Cardinality(Aggregated)
        /\ report.successful + report.errors = Len(db)
        /\ report.analysed <=> Aggregated # {}
        /\ report.unique_keys
              = Cardinality({db[i].key_hash_md5 : i \in Aggregated})
        /\ report.flagged
              = {db[i].signature_hash : i \in
                    {k \in Aggregated :
                        \E j \in Aggregated :
                           /\ db[j].signature_hash = db[k].signature_hash
                           /\ db[j].key_hash_md5 # db[k].key_hash_md5}}

\* A truncated pair whose key differs from that of a good pair with the
\* same signature: one success, one error, nothing flagged.
C27_Witness ==
    /\ pc = "bat_done"
    /\ Len(db) = 2
    /\ db[1].error = "Size mismatch"
    /\ db[1].key_hash_md5 # <<>>
    /\ db[2].error = ""
    /\ db[1].signature_hash = db[2].signature_hash
    /\ db[1].key_hash_md5 # db[2].key_hash_md5
    /\ report.successful = 1
    /\ report.errors = 1
    /\ report.flagged = {}

\* The container paths of the pairs analysed without error.
SavedSources ==
    {pairs[i].dcm_path : i \in {k \in 1..Len(records) : records[k].error = ""}}

\* C28: with key saving, after the loop every pair analysed without error
\* has a key file of its own holding its key (no file was overwritten by
\* another pair's key, same base name or not), and there is no key file
\* beyond those.
C28_KeyFilesDistinct ==
    (pc \in {"bat_saved", "bat_done"} /\ args.save_keys) =>
        /\ Cardinality(key_files) = Cardinality(SavedSources)
        /\ \A i \in 1..Len(records) :
              records[i].error = "" =>
                  \E f \in key_files : f[2] = DerivedKey(pairs[i])

(***************************************************************************)
(* Properties of the GUI's status indicator.                                *)
(***************************************************************************)

\* C29: at most one SDX attach attempt is in flight at any time: the
\* startup attempt and the attempts started by clicks never overlap.
C29_OneAttachInFlight == Cardinality(InFlight) <= 1

(***************************************************************************)
(* Properties of the converter's connections.                               *)
(***************************************************************************)

====
